---- MODULE Spec2Model ----
(***************************************************************************)
(* diiisco-node: the peer-to-peer messaging core.                          *)
(*                                                                         *)
(* One customer node (request facade, quote auction engine, message        *)
(* processor, message router) and two provider nodes running the same      *)
(* processor and router exchange the messages of one inference session     *)
(* over the pub/sub topic and the direct protocol.  The ledger and the     *)
(* model runtime are external collaborators: every call to them returns a  *)
(* nondeterministically chosen result (or throws).                         *)
(***************************************************************************)
EXTENDS Integers, Sequences, FiniteSets, Bags, TLC

(***************************************************************************)
(* Bounds of the model.                                                    *)
(***************************************************************************)
\* how many direct sends may reach the peer although sendDirect reports failure
MaxGhost == 1
\* how many envelopes may be altered in transit
MaxTamper == 1
MaxInbound == 1
MaxTicks == 8
MaxConnects == 1
\* how many quote events a selection function is handed
MaxBids == 3
\* how many quote events reach the engine
MaxArrivals == 3
\* how many termination signals the process receives
MaxSignals == 2
\* how many health check callbacks wait in reconnectToBootstrap at a time
MaxRuns == 2
\* how many requests the facade receives, and for how many ms
MaxPosts == 2
MaxClock == 2

(***************************************************************************)
(* The nodes, their wallets, the single session of the model.              *)
(***************************************************************************)
Customer == "c"
Providers == {"p1", "p2"}
Nodes == {Customer} \cup Providers
WalletOf == [c |-> "Wc", p1 |-> "Wp1", p2 |-> "Wp2"]
Wallets == {WalletOf[n] : n \in Nodes}
SessionId == "s1"
RequestedModel == "m"
NoPeer == "none"

\* A totalPrice is written in units of 0.000001 USDC: quote creation rounds
\* it to six decimals.  123 stands for 0.000123: in IEEE-754
\* 0.000123 * 1000000 is 123.00000000000001, not an integer.
InexactPrices == {123}
\* what the quote creation of each provider yields for the request
PriceOf == [p1 |-> 123, p2 |-> 17]

VARIABLES
    directEnabled,      \* directMessagingConfig.enabled
    fallbackToGossipsub,\* directMessagingConfig.fallbackToGossipsub
    selection,          \* environment.quoteEngine.quoteSelectionFunction
    net,                \* deliveries in flight: [dst, src, chan, msg]
    ghosts,             \* direct sends delivered although reported failed
    tampers,            \* envelopes altered in transit
    quoteQueue,         \* quoteEngine.quoteQueue of every node
    selectedCount,      \* emissions of quote-selected-<id> per node
    lastSelected,       \* the quote event carried by the latest emission
    httpResp,           \* the facade's answer to the POST
    httpBody,           \* who produced the completion that was returned
    mesh,               \* waitForMesh of the POST: idle, waiting, done
    onSelected,         \* once(quote-selected-<id>) listener registered
    onInference,        \* once(inference-response-<id>) listener registered
    infEvents,          \* emissions of inference-response-<id>
    ledgerCalls,        \* ledger calls issued, by method
    lastVerify,         \* what verifyQuoteFunded returned in the step just taken
    inferenceRuns,      \* model.getResponse calls per node
    stepCount,          \* session steps taken, per node and step
    handled,            \* envelopes that reached a role handler
    lastSend,           \* the latest MessageRouter.sendMessage call
    acceptedTo,         \* peers the facade sent quote-accepted to
    lastDirect,         \* the latest DirectMessagingHandler.sendDirect call
    lastStream,         \* the latest inbound stream of the direct protocol
    inbound,            \* messages that peers outside the session have sent
    lastInbound,        \* the latest of them, as it arrived
    now,                \* Date.now(), in ms since the node started
    connected,          \* the tracked peer is among node.getConnections()
    knownAddrs,         \* knownPeers holds multiaddrs for the tracked peer
    reconnectAttempts,  \* the peer's entry of the reconnectAttempts map
    timers,             \* due times of the pending attemptReconnect timeouts
    attemptDials,       \* attemptReconnect calls waiting for their dial
    tick,               \* the health check callback waiting for its dial
    nextTick,           \* when setInterval runs the health check next
    ticks,              \* health checks run
    connects,           \* connections to the tracked peer made so far
    scheduled,          \* delays scheduled since the entry was last deleted
    failed,             \* attemptReconnect dials failed since then
    bids,               \* a list of quote events handed to a selection function
    stakes,             \* what checkIfOptedIn resolves to for each of them
    chosen,             \* the selection function called and what it returned
    ownEntries,         \* own properties of one engine's quoteQueue object
    protoEntry,         \* the prototype of that object, once it was replaced
    armed,              \* window timeouts armed and not yet run, per id
    selecting,          \* lists whose selection is awaited, per id
    emitted,            \* emissions of quote-selected-<id> of that engine
    lastEmit,           \* the latest of them: id, quote, list selected from
    closed,             \* window timeouts whose callback is over, per id
    arrivals,           \* the quote events addQuote was called with, in order
    apiServer,          \* Application.apiServer: none, listening, failed, closing, closed
    requests,           \* HTTP requests not yet answered
    isShuttingDown,     \* Application.isShuttingDown
    shutdownAt,         \* where shutdown() is: idle, closingApi, stoppingNode, done
    steps,              \* what shutdown() has done so far, in order
    exitCode,           \* the code process.exit was called with
    signals,            \* SIGTERM and SIGINT signals received
    healthCheckIntervalId, \* the interval of the health check is set
    keepAliveTimer,     \* the interval of startKeepAlive is set
    subscribed,         \* the node is subscribed to the topics of this.topics
    pings,              \* keep-alive rounds run
    nextPing,           \* when setInterval runs the keep-alive round next
    multiaddrs,         \* the multiaddrs knownPeers stores for the tracked peer
    dialing,            \* attemptReconnect awaits a dial: of which target
    dialed,             \* the dials of that attemptReconnect call, in order
    rescheduled,        \* scheduleReconnect calls made by attemptReconnect
    bootstrapAddresses, \* deps.bootstrapAddresses
    bootConns,          \* bootstrap servers among node.getConnections()
    lastBootstrapAttempt, \* deps.lastBootstrapAttempt
    bootTick,           \* the health check callbacks waiting in reconnectToBootstrap
    bootRuns,           \* the latest reconnectToBootstrap call with what its tick
                        \* observed, and the latest before it made with connections
    lastCall,           \* the ledger or inference call of the step just taken
    lastSeen,           \* lastSeen of the tracked peer's knownPeers record
    peerEvent,          \* the latest change of that record: by whom, from what
    envelope,           \* a message handed to MessageProcessor.process
    processed,          \* what process did with it: checks, handler, result
    posts               \* the quote-requests built by the facade: time, body, id

\* what the node keeps outside the session workflow
ingressVars == <<lastStream, inbound, lastInbound>>

reconnectVars == <<now, connected, knownAddrs, reconnectAttempts, timers,
                   attemptDials, tick, nextTick, ticks, connects, scheduled,
                   failed>>

selectVars == <<bids, stakes, chosen>>

auctionVars == <<ownEntries, protoEntry, armed, selecting, emitted, lastEmit,
                 closed, arrivals>>

shutdownVars == <<apiServer, requests, isShuttingDown, shutdownAt, steps, exitCode,
                  signals, healthCheckIntervalId, keepAliveTimer, subscribed, pings,
                  nextPing>>

dialVars == <<multiaddrs, dialing, dialed, rescheduled>>

bootVars == <<bootstrapAddresses, bootConns, lastBootstrapAttempt, bootTick, bootRuns>>

probeVars == <<lastSeen, peerEvent, envelope, processed, posts>>

\* what the specifications of single components add
unitVars == <<selectVars, auctionVars, shutdownVars, dialVars, bootVars, probeVars>>

nodeVars == <<lastDirect, ingressVars, reconnectVars, unitVars>>

vars == <<directEnabled, fallbackToGossipsub, selection, net, ghosts,
          tampers, quoteQueue, selectedCount, lastSelected, httpResp,
          httpBody, mesh, onSelected, onInference, infEvents, ledgerCalls,
          lastVerify, lastCall, inferenceRuns, stepCount, handled, lastSend,
          acceptedTo, nodeVars>>

(***************************************************************************)
(* Signing: algorand.signObject / verifySignature.                         *)
(***************************************************************************)
\* json-canonicalize: the keys of the object in lexicographic order, each
\* with its value; the payload is canonicalized the same way.
PayloadKeyOrder == <<"addr", "completion", "model", "totalPrice">>
KeyOrder == <<"from", "fromWalletAddr", "id", "payload", "role", "signature", "to">>

CanonicalizePayload(p) ==
    [i \in 1..Len(PayloadKeyOrder) |-> <<PayloadKeyOrder[i], p[PayloadKeyOrder[i]]>>]

Canonicalize(obj) ==
    LET present == SelectSeq(KeyOrder, LAMBDA k : k \in DOMAIN obj)
    IN  [i \in 1..Len(present) |->
            IF present[i] = "payload"
            THEN <<"payload", CanonicalizePayload(obj.payload)>>
            ELSE <<present[i], obj[present[i]]>>]

\* the object with its signature field removed
WithoutSignature(obj) ==
    [k \in (DOMAIN obj) \ {"signature"} |-> obj[k]]

\* algosdk.signBytes with the secret key of wallet w
SignBytes(bytes, w) == [signer |-> w, bytes |-> bytes]

\* algosdk.verifyBytes
VerifyBytes(bytes, sig, addr) == sig = SignBytes(bytes, addr)

SignObject(obj, w) == SignBytes(Canonicalize(WithoutSignature(obj)), w)

\* verification that checks whose key signed, not which bytes were signed
VerifySignatureSignerOnly(obj) ==
    IF "signature" \in DOMAIN obj
    THEN obj.signature.signer = obj.fromWalletAddr
    ELSE FALSE

VerifySignature(obj) ==
    IF "signature" \in DOMAIN obj
    THEN VerifyBytes(Canonicalize(WithoutSignature(obj)), obj.signature,
                     obj.fromWalletAddr)
    ELSE FALSE

IsValidAddress(addr) == addr \in Wallets

\* obj with the signature of wallet w attached
Signed(obj, w) ==
    [k \in (DOMAIN obj) \cup {"signature"} |->
        IF k = "signature" THEN SignObject(obj, w) ELSE obj[k]]

(***************************************************************************)
(* Envelopes.                                                              *)
(***************************************************************************)
\* { ...obj, k: v }
With(obj, k, v) ==
    [x \in (DOMAIN obj) \cup {k} |-> IF x = k THEN v ELSE obj[x]]

EmptyPayload ==
    [model |-> RequestedModel, totalPrice |-> 0, addr |-> "none", completion |-> "none"]

\* the quote-request the facade builds and signs for the POST
QuoteRequestMsg ==
    Signed([role |-> "quote-request", from |-> Customer,
            fromWalletAddr |-> WalletOf[Customer], id |-> SessionId,
            payload |-> EmptyPayload], WalletOf[Customer])

\* the quote-response of provider n to quote-request msg received from src
QuoteResponseMsg(n, msg, src, price) ==
    Signed([role |-> "quote-response", id |-> msg.id, to |-> src,
            fromWalletAddr |-> WalletOf[n],
            payload |-> [msg.payload EXCEPT !.totalPrice = price,
                                            !.addr = WalletOf[n]]], WalletOf[n])

\* the quote-accepted the facade builds for the selected quote event
QuoteAcceptedMsg(quote) ==
    Signed([role |-> "quote-accepted", to |-> quote.from, id |-> quote.msg.id,
            fromWalletAddr |-> WalletOf[Customer],
            payload |-> quote.msg.payload], WalletOf[Customer])

\* { ...msg, role, to: sourcePeerId, fromWalletAddr }, signed again
Reply(n, msg, src, role) ==
    Signed(With(With(With(msg, "role", role), "to", src),
                "fromWalletAddr", WalletOf[n]), WalletOf[n])

InferenceResponseMsg(n, msg, src) ==
    Signed([role |-> "inference-response", to |-> src, id |-> msg.id,
            fromWalletAddr |-> WalletOf[n],
            payload |-> [msg.payload EXCEPT !.completion = n]], WalletOf[n])

\* BigInt(totalPrice * 1_000_000): the amount in base units, or -1 when the
\* floating-point product is not an integer and BigInt throws a RangeError
ToBaseUnits(totalPrice) ==
    IF totalPrice \in InexactPrices THEN -1 ELSE totalPrice

(***************************************************************************)
(* Transports.                                                             *)
(***************************************************************************)
\* pubsub.publish on the well-known topic: every subscriber, the publisher
\* included (emitSelf), is handed the message
Publish(n, m) ==
    {[dst |-> d, src |-> n, chan |-> "pubsub", msg |-> m] : d \in Nodes}

DirectDelivery(n, peer, m) ==
    [dst |-> peer, src |-> n, chan |-> "direct", msg |-> m]

\* The steps of sendDirect inside its try block, in order, and the ways one
\* call can fail: "peerId" is peerIdFromString throwing, "dial" a dial error,
\* "timeout" the abort of the dial by AbortSignal.timeout, "write" and "close"
\* an error of lp.write and of close.
DirectStages == <<"peerId", "dial", "write", "close">>

FailPoints == {"none", "peerId", "dial", "timeout", "write", "close"}

StageOf(fail) == IF fail = "timeout" THEN "dial" ELSE fail

\* the stage was completed by a call that fails as `fail` says
StageDone(stage, fail) ==
    \/ fail = "none"
    \/ \E i, j \in 1..Len(DirectStages) :
          /\ DirectStages[i] = stage
          /\ DirectStages[j] = StageOf(fail)
          /\ i < j

\* a sendDirect that does not wait for the close of the stream
SendDirectUnclosed(fail) ==
    [fail |-> fail,
     dials |-> IF StageDone("peerId", fail) THEN 1 ELSE 0,
     written |-> IF StageDone("write", fail) THEN 1 ELSE 0,
     closed |-> StageDone("close", fail),
     result |-> StageDone("write", fail),
     threw |-> FALSE]

\* sendDirect(peer, message): the dials it made, the frames it wrote, whether
\* the stream was closed, what it returned, whether it threw
SendDirect(fail) ==
    [fail |-> fail,
     dials |-> IF StageDone("peerId", fail) THEN 1 ELSE 0,
     written |-> IF StageDone("write", fail) THEN 1 ELSE 0,
     closed |-> StageDone("close", fail),
     result |-> StageDone("close", fail),
     threw |-> FALSE]

\* what the router sees of a sendDirect call: whether the frame reached the
\* peer and what the call returned
Outcome(call) == [delivered |-> call.written = 1, success |-> call.result]

\* a close that fails after the frame was written leaves a frame that the peer
\* reads although sendDirect returns false; g such calls were made so far
FailPointsAt(g) == IF g < MaxGhost THEN FailPoints ELSE FailPoints \ {"close"}

\* What one sendDirect call can do: write the frame or not, report success or
\* not.
DirectResults(g) == {Outcome(SendDirect(f)) : f \in FailPointsAt(g)}

\* a listener that wants every message addressed to its node
ListenerRequiresTo(n, msg) ==
    IF "to" \in DOMAIN msg THEN msg.to = n ELSE FALSE

\* a listener without the addressing check
ListenerAcceptsAny(n, msg) == TRUE

\* the addressing check of the pub/sub listener and of the direct handler
ListenerAccepts(n, msg) ==
    IF "to" \in DOMAIN msg THEN msg.to = n ELSE TRUE

(***************************************************************************)
(* MessageRouter.                                                          *)
(***************************************************************************)
DirectMessageTypes ==
    {"quote-accepted", "contract-created", "contract-signed", "inference-response"}

\* a router that lets any role go direct
ShouldUseDirectAnyRole(enabled, m) == enabled

ShouldUseDirect(enabled, m) ==
    IF ~enabled THEN FALSE ELSE m.role \in DirectMessageTypes

\* a router that tries the direct send once more before it falls back
OnDirectFailureRetry(fallback, n, m) ==
    IF fallback
    THEN [deliv |-> Publish(n, m), published |-> <<m>>, threw |-> FALSE, retries |-> 1]
    ELSE [deliv |-> {}, published |-> <<>>, threw |-> TRUE, retries |-> 1]

\* a router that falls back whatever fallbackToGossipsub says
OnDirectFailurePublish(fallback, n, m) ==
    [deliv |-> Publish(n, m), published |-> <<m>>, threw |-> FALSE, retries |-> 0]

\* the branch of sendMessage taken after sendDirect returned false
OnDirectFailure(fallback, n, m) ==
    IF fallback
    THEN [deliv |-> Publish(n, m), published |-> <<m>>, threw |-> FALSE, retries |-> 0]
    ELSE [deliv |-> {}, published |-> <<>>, threw |-> TRUE, retries |-> 0]

\* sendViaGossipsub when direct delivery is not attempted
SendViaGossipsub(n, m) ==
    [deliv |-> Publish(n, m), published |-> <<m>>, threw |-> FALSE, retries |-> 0]

\* a router that publishes on the topic whatever sendDirect returned
SendMessageAlsoPublish(enabled, fallback, n, m, target, r) ==
    LET useDirect == ShouldUseDirect(enabled, m) /\ target # NoPeer
        wire == IF r.delivered THEN {DirectDelivery(n, target, m)} ELSE {}
        g == SendViaGossipsub(n, m)
    IN  IF useDirect /\ enabled
        THEN [deliv |-> wire \cup g.deliv, published |-> g.published,
              threw |-> FALSE, direct |-> 1, success |-> r.success]
        ELSE [deliv |-> g.deliv, published |-> g.published, threw |-> g.threw,
              direct |-> 0, success |-> FALSE]

\* sendMessage(m, target) given the result r of its sendDirect call (if made):
\* the deliveries it causes, what it published, whether it threw
SendMessage(enabled, fallback, n, m, target, r) ==
    LET useDirect == ShouldUseDirect(enabled, m) /\ target # NoPeer
        directHandler == enabled
    IN  IF useDirect /\ directHandler
        THEN LET wire == IF r.delivered THEN {DirectDelivery(n, target, m)} ELSE {}
             IN  IF r.success
                 THEN [deliv |-> wire, published |-> <<>>, threw |-> FALSE,
                       direct |-> 1, success |-> TRUE]
                 ELSE LET f == OnDirectFailure(fallback, n, m)
                      IN  [deliv |-> wire \cup f.deliv, published |-> f.published,
                           threw |-> f.threw, direct |-> 1 + f.retries,
                           success |-> FALSE]
        ELSE LET g == SendViaGossipsub(n, m)
             IN  [deliv |-> g.deliv, published |-> g.published, threw |-> g.threw,
                  direct |-> 0, success |-> FALSE]

\* the record lastSend keeps of one sendMessage call
LogEntry(n, m, target, r, s) ==
    [node |-> n, msg |-> m, target |-> target, direct |-> s.direct,
     success |-> s.success, published |-> s.published, threw |-> s.threw]

(***************************************************************************)
(* Quote selection policies.                                               *)
(***************************************************************************)
Policies == {"cheapest", "first", "random", "highest-stake"}
\* quoteSelectionFunction ?? selectHighestStakeQuote
DefaultPolicy == "highest-stake"

\* a comparator that orders by descending price
ComparePriceDescending(a, b) == b.msg.payload.totalPrice - a.msg.payload.totalPrice

\* the comparator of selectCheapestQuote
ComparePrice(a, b) == a.msg.payload.totalPrice - b.msg.payload.totalPrice

\* Array.prototype.sort is stable: an element goes behind every element of
\* the sorted part that does not compare greater than it
RECURSIVE InsertQuote(_, _)
InsertQuote(sorted, q) ==
    IF sorted = <<>> THEN <<q>>
    ELSE IF ComparePrice(sorted[Len(sorted)], q) > 0
         THEN Append(InsertQuote(SubSeq(sorted, 1, Len(sorted) - 1), q),
                     sorted[Len(sorted)])
         ELSE Append(sorted, q)

\* quotes.sort(comparator)
RECURSIVE SortQuotes(_)
SortQuotes(quotes) ==
    IF quotes = <<>> THEN <<>>
    ELSE InsertQuote(SortQuotes(SubSeq(quotes, 1, Len(quotes) - 1)),
                     quotes[Len(quotes)])

selectCheapestQuote(quotes) == SortQuotes(quotes)[1]

selectFirstQuote(quotes) == quotes[1]

\* Math.floor(Math.random() * quotes.length): any index
selectRandomQuote(quotes) == {quotes[i] : i \in 1..Len(quotes)}

\* the asset amounts an account may hold
Balances == {0, 1}

\* algorand.checkIfOptedIn resolves to an object, for an account that holds
\* amount of the asset (an account that has not opted in holds none)
CheckIfOptedIn(optedIn, amount) ==
    [optedIn |-> optedIn, balance |-> IF optedIn THEN amount ELSE 0]

OptInResults == {CheckIfOptedIn(o, a) : o \in BOOLEAN, a \in Balances}

\* ToPrimitive of a plain object: Object.prototype.toString gives
\* "[object Object]", written here as its code units
ObjectToString(obj) ==
    <<91, 111, 98, 106, 101, 99, 116, 32, 79, 98, 106, 101, 99, 116, 93>>

\* x > y on two strings: by the first code unit in which they differ
RECURSIVE StringGreater(_, _)
StringGreater(x, y) ==
    IF x = <<>> THEN FALSE
    ELSE IF y = <<>> THEN TRUE
    ELSE IF Head(x) # Head(y) THEN Head(x) > Head(y)
    ELSE StringGreater(Tail(x), Tail(y))

\* prev.balance > curr.balance, where both are what checkIfOptedIn resolved to
BalanceGreater(prev, curr) ==
    StringGreater(ObjectToString(prev), ObjectToString(curr))

\* reduce((prev, curr) => prev.balance > curr.balance ? prev : curr) over
\* the entries { quote, balance: bal[i] }
RECURSIVE HighestFrom(_, _, _)
HighestFrom(bal, prev, i) ==
    IF i > Len(bal) THEN prev
    ELSE HighestFrom(bal, IF BalanceGreater(bal[prev], bal[i]) THEN prev ELSE i, i + 1)

selectHighestStakeQuote(quotes, bal) == quotes[HighestFrom(bal, 1, 2)]

CustomerPath == <<"DISCOVERING", "QUOTED", "ACCEPTED", "CONTRACT_SIGNED_SENT", "PAID">>
ProviderPath == <<"QUOTE_OFFERED", "CONTRACT_CREATED_SENT", "INFERRING", "RESPONDED">>
StepLabels == {CustomerPath[i] : i \in 1..Len(CustomerPath)}
              \cup {ProviderPath[i] : i \in 1..Len(ProviderPath)}

\* the amounts verifyQuoteFunded may report, in base units
FundedAmounts == {16, 17}

\* models.enabled and the models loaded at start: the customer serves none
AvailableModels(n) == IF n \in Providers THEN {RequestedModel} ELSE {}

NoQueue == [quotes |-> <<>>, phase |-> "none", snap |-> 0]

cfgVars == <<directEnabled, fallbackToGossipsub, selection>>
engineVars == <<quoteQueue, selectedCount, lastSelected>>
httpVars == <<httpResp, httpBody, mesh, onSelected, onInference, infEvents>>
ledgerVars == <<ledgerCalls, inferenceRuns>>
routeVars == <<net, ghosts, lastSend>>

\* ids of quote-response messages: the session of the model, and a string
\* that names an accessor of Object.prototype
OrdinaryIds == {SessionId}
SessionIds == OrdinaryIds \cup {"__proto__"}

\* new quoteEngine(): quoteQueue = {}
EngineIdle ==
    /\ ownEntries = [id \in OrdinaryIds |-> <<>>]
    /\ protoEntry = <<>>
    /\ armed = [id \in SessionIds |-> 0]
    /\ selecting = [id \in SessionIds |-> <<>>]
    /\ emitted = [id \in SessionIds |-> 0]
    /\ lastEmit = <<>>
    /\ closed = [id \in SessionIds |-> 0]
    /\ arrivals = <<>>

\* Application: the reconnection configuration, in ms
MAX_RECONNECT_ATTEMPTS == 5
RECONNECT_DELAY == 5000
RECONNECT_COOLDOWN == 300000
MIN_CONNECTIONS == 2
\* startConnectionHealthCheck
CHECK_INTERVAL == 60000

\* the supervisor of a node that is connected to the tracked peer, before
\* the first health check
SupervisorIdle ==
    /\ now = 0
    /\ connected = TRUE
    /\ reconnectAttempts = <<>>
    /\ timers = EmptyBag
    /\ attemptDials = 0
    /\ tick = <<>>
    /\ nextTick = CHECK_INTERVAL
    /\ ticks = 0
    /\ connects = 0
    /\ scheduled = <<>>
    /\ failed = 0

\* startKeepAlive: the interval of the ping rounds, in ms
PING_INTERVAL == 30000

\* Application.start is over: both intervals are set, the topic is subscribed
ShutdownIdle ==
    /\ isShuttingDown = FALSE
    /\ shutdownAt = "idle"
    /\ steps = <<>>
    /\ exitCode = <<>>
    /\ signals = 0
    /\ healthCheckIntervalId = TRUE
    /\ keepAliveTimer = TRUE
    /\ subscribed = TRUE
    /\ pings = 0

\* the process runs: process.exit has not been called
Alive == exitCode = <<>>

\* the API server listens and no request is open
ApiUp ==
    /\ apiServer = "listening"
    /\ requests = 0

\* no message has been sent or received
SessionIdle ==
    /\ net = {}
    /\ quoteQueue = [n \in Nodes |-> NoQueue]
    /\ selectedCount = [n \in Nodes |-> 0]
    /\ lastSelected = [n \in Nodes |-> <<>>]
    /\ httpResp = "none"
    /\ httpBody = "none"
    /\ mesh = "idle"
    /\ onSelected = FALSE
    /\ onInference = FALSE
    /\ infEvents = 0
    /\ ledgerCalls = [createQuote |-> 0, fundQuote |-> 0,
                      verifyQuoteFunded |-> 0, completeQuote |-> 0]
    /\ lastVerify = <<>>
    /\ lastCall = <<>>
    /\ inferenceRuns = [n \in Nodes |-> 0]
    /\ stepCount = [n \in Nodes |-> [l \in StepLabels |-> 0]]
    /\ handled = {}
    /\ lastSend = <<>>
    /\ acceptedTo = {}
    /\ lastDirect = <<>>
    /\ lastStream = <<>>
    /\ inbound = 0
    /\ lastInbound = <<>>
    /\ chosen = <<>>

\* no attemptReconnect call is running and none has run
DialIdle ==
    /\ multiaddrs = <<>>
    /\ dialing = <<>>
    /\ dialed = <<>>
    /\ rescheduled = 0

\* no bootstrap server is configured, none was dialled
BootstrapIdle ==
    /\ bootstrapAddresses = <<>>
    /\ bootConns = {}
    /\ lastBootstrapAttempt = 0
    /\ bootTick = <<>>
    /\ bootRuns = <<>>

\* no knownPeers record of the tracked peer is followed, no message was
\* handed to process by itself, the facade has built no quote-request
RecordIdle ==
    /\ lastSeen = <<>>
    /\ peerEvent = <<>>

ProcessorIdle ==
    /\ envelope = <<>>
    /\ processed = <<>>

ProbeIdle ==
    /\ RecordIdle
    /\ ProcessorIdle
    /\ posts = <<>>

\* the state of a started node set before any request
StartedNode ==
    /\ ProbeIdle
    /\ DialIdle
    /\ BootstrapIdle
    /\ SupervisorIdle
    /\ nextPing = PING_INTERVAL
    /\ EngineIdle
    /\ ShutdownIdle
    /\ SessionIdle

\* no selection function is under test
NoBids ==
    /\ bids = <<>>
    /\ stakes = <<>>

\* the state of a started node set before any request, nothing having
\* crossed the network yet
Started ==
    /\ ghosts = 0
    /\ tampers = 0
    /\ knownAddrs = FALSE
    /\ NoBids
    /\ ApiUp
    /\ StartedNode

\* a started node under its default configuration, apart from the supervisor
\* and from what the specifications of the processor, the facade's ids and
\* the knownPeers record follow
AtRest ==
    /\ selection = DefaultPolicy
    /\ directEnabled = TRUE
    /\ fallbackToGossipsub = TRUE
    /\ ghosts = 0
    /\ tampers = 0
    /\ NoBids
    /\ ApiUp
    /\ DialIdle
    /\ BootstrapIdle
    /\ nextPing = PING_INTERVAL
    /\ EngineIdle
    /\ ShutdownIdle
    /\ SessionIdle

\* Every directMessaging configuration under the default selection policy,
\* and every selection policy with all traffic on gossipsub: the policy acts
\* on quote-response messages only, which are never sent directly.
Init ==
    /\ \/ /\ selection = DefaultPolicy
          /\ directEnabled \in BOOLEAN
          /\ fallbackToGossipsub \in BOOLEAN
       \/ /\ selection \in Policies
          /\ directEnabled = FALSE
          /\ fallbackToGossipsub = TRUE
    /\ Started

\* One sendMessage call of node n: base is the rest of the network
Route(n, m, target, r, base) ==
    LET s == SendMessage(directEnabled, fallbackToGossipsub, n, m, target, r)
    IN  /\ net' = base \cup s.deliv
        /\ lastSend' = <<LogEntry(n, m, target, r, s)>>
        /\ ghosts' = IF s.direct > 0 /\ r.delivered /\ ~r.success
                     THEN ghosts + 1 ELSE ghosts

\* a step that makes no ledger call and runs no inference
NoCall == lastCall' = <<>>

\* MessageProcessor.process: the switch runs inside try; a handler that
\* returns makes process return true, a handler that throws is caught and
\* process returns false
ProcessResult(ok) == IF ok THEN "true" ELSE "false"

\* node n has awaited the ledger method or the inference: ok tells whether
\* the promise resolved
Called(n, method, ok) ==
    <<[node |-> n, method |-> method, ok |-> ok, result |-> ProcessResult(ok)]>>

\* a step that makes no verifyQuoteFunded call that returns
NoVerify == lastVerify' = <<>>

\* node n takes the steps of the set labels: a step that sends a message is
\* taken when the handler hands the message to the router
Step(n, labels) ==
    stepCount' = [stepCount EXCEPT ![n] =
                    [l \in StepLabels |-> IF l \in labels THEN @[l] + 1 ELSE @[l]]]

\* Deliveries that are handled before anything else happens: gossipsub hands
\* a publication to the publisher's own listener inside publish (emitSelf),
\* and a delivery that fails the listener's addressing check is dropped by
\* the listener without any effect.
Urgent(d) ==
    \/ ~ListenerAccepts(d.dst, d.msg)
    \/ d.chan = "pubsub" /\ d.dst = d.src

Quiet == \A d \in net : ~Urgent(d)

\* MessageProcessor.process up to the role dispatch
ProcessAdmits(msg) ==
    /\ IsValidAddress(msg.fromWalletAddr)
    /\ "signature" \in DOMAIN msg
    /\ VerifySignature(msg)

\* An envelope altered after signing, its signature left as it was: the
\* totalPrice of the payload, the id or the role is changed
AlteredPrices == {10}
AlteredIds == {"s0"}
AlteredRoles == {"inference-response"}

Alterations(msg) ==
    ({[msg EXCEPT !.payload.totalPrice = x] : x \in AlteredPrices}
     \cup {[msg EXCEPT !.id = x] : x \in AlteredIds}
     \cup {[msg EXCEPT !.role = x] : x \in AlteredRoles}) \ {msg}

\* What the listener of d.dst may be handed for delivery d: the envelope as
\* sent or, when it crossed the network, an altered one
Received(d) ==
    {d.msg} \cup
    (IF tampers < MaxTamper /\ d.dst # d.src THEN Alterations(d.msg) ELSE {})

Tampered(d, e) == tampers' = IF e = d.msg THEN tampers ELSE tampers + 1

\* delivery d, received as envelope e, reaches the handler of role
Dispatch(d, e, role) ==
    /\ d \in net
    /\ ListenerAccepts(d.dst, d.msg)
    /\ Quiet \/ Urgent(d)
    /\ e \in Received(d)
    /\ e.role = role
    /\ ProcessAdmits(e)
    /\ Tampered(d, e)
    /\ handled' = handled \cup {[node |-> d.dst, role |-> e.role,
                                  altered |-> e # d.msg, msg |-> e]}

(***************************************************************************)
(* Request facade: POST /v1/chat/completions.                              *)
(***************************************************************************)
Post(valid) ==
    /\ httpResp = "none"
    /\ IF valid
       THEN /\ httpResp' = "pending"
            /\ mesh' = "waiting"
            /\ onSelected' = TRUE
            /\ onInference' = TRUE
       ELSE /\ httpResp' = "400"
            /\ UNCHANGED <<mesh, onSelected, onInference>>
    /\ UNCHANGED <<nodeVars, cfgVars, routeVars, tampers, engineVars, httpBody, infEvents,
                   ledgerVars, stepCount, handled, acceptedTo>>
    /\ NoVerify
    /\ NoCall

\* waitForMesh resolved: the quote-request is sent through the router
MeshReady ==
    /\ mesh = "waiting"
    /\ Quiet
    /\ mesh' = "done"
    /\ \E r \in DirectResults(ghosts) :
          Route(Customer, QuoteRequestMsg, NoPeer, r, net)
    /\ Step(Customer, {"DISCOVERING"})
    /\ UNCHANGED <<nodeVars, cfgVars, tampers, engineVars, httpResp, httpBody, onSelected,
                   onInference, infEvents, ledgerVars, handled, acceptedTo>>
    /\ NoVerify
    /\ NoCall

\* waitForMesh timed out: 500, the listeners stay registered; a send on a
\* response answered in the meantime throws
MeshTimeout ==
    /\ mesh = "waiting"
    /\ mesh' = "done"
    /\ httpResp' = IF httpResp = "pending" THEN "500" ELSE httpResp
    /\ UNCHANGED <<nodeVars, cfgVars, routeVars, tampers, engineVars, httpBody, onSelected,
                   onInference, infEvents, ledgerVars, stepCount, handled, acceptedTo>>
    /\ NoVerify
    /\ NoCall

\* emit(quote-selected-<id>, q) at node n, and the facade's once-listener
EmitQuoteSelected(n, q) ==
    /\ selectedCount' = [selectedCount EXCEPT ![n] = @ + 1]
    /\ lastSelected' = [lastSelected EXCEPT ![n] = <<q>>]
    /\ IF n = Customer /\ onSelected
       THEN \E r \in DirectResults(ghosts) :
              LET m == QuoteAcceptedMsg(q)
              IN  /\ Route(n, m, q.from, r, net)
                  /\ onSelected' = FALSE
                  /\ acceptedTo' = acceptedTo \cup {[to |-> m.to, target |-> q.from]}
                  /\ Step(n, {"QUOTED", "ACCEPTED"})
       ELSE /\ Step(n, {"QUOTED"})
            /\ UNCHANGED <<routeVars, onSelected, acceptedTo>>

(***************************************************************************)
(* Listeners and MessageProcessor.                                         *)
(***************************************************************************)
\* the listener's addressing check fails: the message never reaches process
DropUnaddressed(d) ==
    /\ d \in net
    /\ ~ListenerAccepts(d.dst, d.msg)
    /\ net' = net \ {d}
    /\ UNCHANGED <<nodeVars, cfgVars, ghosts, lastSend, tampers, engineVars, httpVars,
                   ledgerVars, stepCount, handled, acceptedTo>>
    /\ NoVerify
    /\ NoCall

\* a processor that tells the sender of a message that it turned it down
RejectWithNotice(d, e) ==
    /\ d \in net
    /\ ListenerAccepts(d.dst, d.msg)
    /\ Quiet \/ Urgent(d)
    /\ e \in Received(d)
    /\ ~ProcessAdmits(e)
    /\ Tampered(d, e)
    /\ \E r \in DirectResults(ghosts) :
          Route(d.dst, Reply(d.dst, e, d.src, "rejected"), NoPeer, r, net \ {d})
    /\ UNCHANGED <<nodeVars, cfgVars, engineVars, httpVars,
                   ledgerVars, stepCount, handled, acceptedTo>>
    /\ NoVerify
    /\ NoCall

\* process returns false before the dispatch: bad address, no signature or
\* a signature that does not verify
Reject(d, e) ==
    /\ d \in net
    /\ ListenerAccepts(d.dst, d.msg)
    /\ Quiet \/ Urgent(d)
    /\ e \in Received(d)
    /\ ~ProcessAdmits(e)
    /\ Tampered(d, e)
    /\ net' = net \ {d}
    /\ UNCHANGED <<nodeVars, cfgVars, ghosts, lastSend, engineVars, httpVars,
                   ledgerVars, stepCount, handled, acceptedTo>>
    /\ NoVerify
    /\ NoCall

HandleQuoteRequest(d, e) ==
    LET n == d.dst
    IN  /\ Dispatch(d, e, "quote-request")
        /\ \E optedIn \in BOOLEAN :
              IF RequestedModel \in AvailableModels(n) /\ optedIn
              THEN /\ \E r \in DirectResults(ghosts) :
                         Route(n, QuoteResponseMsg(n, e, d.src, PriceOf[n]),
                               NoPeer, r, net \ {d})
                   /\ Step(n, {"QUOTE_OFFERED"})
              ELSE /\ net' = net \ {d}
                   /\ UNCHANGED <<ghosts, lastSend, stepCount>>
        /\ UNCHANGED <<nodeVars, cfgVars, engineVars, httpVars, ledgerVars, acceptedTo>>
        /\ NoVerify
        /\ NoCall

\* quoteEngine.addQuote
AddQuote(n, quoteEvent) ==
    quoteQueue' = [quoteQueue EXCEPT ![n] =
        IF @.phase = "none"
        THEN [quotes |-> <<quoteEvent>>, phase |-> "armed", snap |-> 0]
        ELSE [@ EXCEPT !.quotes = Append(@, quoteEvent)]]

HandleQuoteResponse(d, e) ==
    /\ Dispatch(d, e, "quote-response")
    /\ AddQuote(d.dst, [msg |-> e, from |-> d.src])
    /\ net' = net \ {d}
    /\ UNCHANGED <<nodeVars, cfgVars, ghosts, lastSend, selectedCount, lastSelected,
                   httpVars, ledgerVars, stepCount, acceptedTo>>
    /\ NoVerify
    /\ NoCall

HandleQuoteAccepted(d, e) ==
    LET n == d.dst
        m == Reply(n, e, d.src, "contract-created")
    IN  /\ Dispatch(d, e, "quote-accepted")
        /\ IF ToBaseUnits(e.payload.totalPrice) < 0
           THEN /\ net' = net \ {d}
                /\ UNCHANGED <<ghosts, lastSend, stepCount, ledgerCalls>>
                /\ NoCall
           ELSE /\ ledgerCalls' = [ledgerCalls EXCEPT !.createQuote = @ + 1]
                /\ \E ok \in BOOLEAN :
                     /\ lastCall' = Called(n, "createQuote", ok)
                     /\ IF ok
                        THEN \E r \in DirectResults(ghosts) :
                               /\ Route(n, m, d.src, r, net \ {d})
                               /\ Step(n, {"CONTRACT_CREATED_SENT"})
                        ELSE /\ net' = net \ {d}
                             /\ UNCHANGED <<ghosts, lastSend, stepCount>>
        /\ UNCHANGED <<nodeVars, cfgVars, engineVars, httpVars,
                       inferenceRuns, acceptedTo>>
        /\ NoVerify

HandleContractCreated(d, e) ==
    LET n == d.dst
        m == Reply(n, e, d.src, "contract-signed")
    IN  /\ Dispatch(d, e, "contract-created")
        /\ IF ToBaseUnits(e.payload.totalPrice) < 0
           THEN /\ net' = net \ {d}
                /\ UNCHANGED <<ghosts, lastSend, stepCount, ledgerCalls>>
                /\ NoCall
           ELSE /\ ledgerCalls' = [ledgerCalls EXCEPT !.fundQuote = @ + 1]
                /\ \E ok \in BOOLEAN :
                     /\ lastCall' = Called(n, "fundQuote", ok)
                     /\ IF ok
                        THEN \E r \in DirectResults(ghosts) :
                               /\ Route(n, m, d.src, r, net \ {d})
                               /\ Step(n, {"CONTRACT_SIGNED_SENT"})
                        ELSE /\ net' = net \ {d}
                             /\ UNCHANGED <<ghosts, lastSend, stepCount>>
        /\ UNCHANGED <<nodeVars, cfgVars, engineVars, httpVars,
                       inferenceRuns, acceptedTo>>
        /\ NoVerify

\* a funding check that looks at the funded flag only
FundingCheckFlagOnly(funded, usdcAmount, totalPrice) ==
    IF ~funded THEN "abort"
    ELSE IF ToBaseUnits(totalPrice) < 0 THEN "throw"
    ELSE "run"

\* the funding check of handleContractSigned on the result of
\* verifyQuoteFunded: "abort", "throw" (BigInt of a non-integer) or "run"
FundingCheck(funded, usdcAmount, totalPrice) ==
    IF ~funded THEN "abort"
    ELSE IF ToBaseUnits(totalPrice) < 0 THEN "throw"
    ELSE IF usdcAmount < ToBaseUnits(totalPrice) THEN "abort"
    ELSE "run"

HandleContractSigned(d, e) ==
    LET n == d.dst
        m == InferenceResponseMsg(n, e, d.src)
    IN  /\ Dispatch(d, e, "contract-signed")
        /\ ledgerCalls' = [ledgerCalls EXCEPT !.verifyQuoteFunded = @ + 1]
        /\ \E returned \in BOOLEAN, funded \in BOOLEAN, usdcAmount \in FundedAmounts :
             IF ~returned
             THEN /\ net' = net \ {d}
                  /\ UNCHANGED <<ghosts, lastSend, stepCount, inferenceRuns>>
                  /\ NoVerify
                  /\ lastCall' = Called(n, "verifyQuoteFunded", FALSE)
             ELSE /\ lastVerify' = <<[node |-> n, funded |-> funded,
                                      usdcAmount |-> usdcAmount,
                                      totalPrice |-> e.payload.totalPrice]>>
                  /\ IF FundingCheck(funded, usdcAmount, e.payload.totalPrice) # "run"
                     THEN /\ net' = net \ {d}
                          /\ lastCall' = Called(n, "verifyQuoteFunded", TRUE)
                          /\ UNCHANGED <<ghosts, lastSend, stepCount, inferenceRuns>>
                     ELSE /\ inferenceRuns' = [inferenceRuns EXCEPT ![n] = @ + 1]
                          /\ \E completed \in BOOLEAN :
                               /\ lastCall' = Called(n, "getResponse", completed)
                               /\ IF completed
                                  THEN \E r \in DirectResults(ghosts) :
                                         /\ Route(n, m, d.src, r, net \ {d})
                                         /\ Step(n, {"INFERRING", "RESPONDED"})
                                  ELSE /\ net' = net \ {d}
                                       /\ Step(n, {"INFERRING"})
                                       /\ UNCHANGED <<ghosts, lastSend>>
        /\ UNCHANGED <<nodeVars, cfgVars, engineVars, httpVars, acceptedTo>>

\* a listener whose send replaces the answer already given
InferenceListenerResends(n, msg) ==
    IF n = Customer /\ onInference
    THEN /\ onInference' = FALSE
         /\ httpResp' = "200"
         /\ httpBody' = msg.payload.completion
    ELSE UNCHANGED <<onInference, httpResp, httpBody>>

\* res.status(200).send(completion) of the once(inference-response-<id>)
\* listener; a second send on an answered response throws
InferenceListener(n, msg) ==
    IF n = Customer /\ onInference
    THEN /\ onInference' = FALSE
         /\ IF httpResp = "pending"
            THEN /\ httpResp' = "200"
                 /\ httpBody' = msg.payload.completion
            ELSE UNCHANGED <<httpResp, httpBody>>
    ELSE UNCHANGED <<onInference, httpResp, httpBody>>

\* a handler that emits the event whatever became of completeQuote
HandleInferenceResponseUnchecked(d, e) ==
    LET n == d.dst
    IN  /\ Dispatch(d, e, "inference-response")
        /\ net' = net \ {d}
        /\ ledgerCalls' = [ledgerCalls EXCEPT !.completeQuote = @ + 1]
        /\ \E ok \in BOOLEAN : lastCall' = Called(n, "completeQuote", ok)
        /\ infEvents' = infEvents + 1
        /\ InferenceListener(n, e)
        /\ Step(n, {"PAID"})
        /\ UNCHANGED <<nodeVars, cfgVars, ghosts, lastSend, engineVars, mesh,
                       onSelected, inferenceRuns, acceptedTo>>
        /\ NoVerify

\* handleInferenceResponse: completeQuote is awaited, then the event is
\* emitted; when completeQuote rejects, the catch of process takes the error
HandleInferenceResponse(d, e) ==
    LET n == d.dst
    IN  /\ Dispatch(d, e, "inference-response")
        /\ net' = net \ {d}
        /\ ledgerCalls' = [ledgerCalls EXCEPT !.completeQuote = @ + 1]
        /\ \E ok \in BOOLEAN :
             /\ lastCall' = Called(n, "completeQuote", ok)
             /\ IF ok
                THEN /\ infEvents' = infEvents + 1
                     /\ InferenceListener(n, e)
                     /\ Step(n, {"PAID"})
                ELSE UNCHANGED <<infEvents, onInference, httpResp, httpBody, stepCount>>
        /\ UNCHANGED <<nodeVars, cfgVars, ghosts, lastSend, engineVars, mesh,
                       onSelected, inferenceRuns, acceptedTo>>
        /\ NoVerify

(***************************************************************************)
(* Quote auction engine: the window timer.                                 *)
(***************************************************************************)
\* the timer fires with a selection function that does no I/O
TimerFire(n) ==
    /\ quoteQueue[n].phase = "armed"
    /\ Quiet
    /\ selection \in {"cheapest", "first", "random"}
    /\ \E q \in (IF selection = "cheapest" THEN {selectCheapestQuote(quoteQueue[n].quotes)}
                 ELSE IF selection = "first" THEN {selectFirstQuote(quoteQueue[n].quotes)}
                 ELSE selectRandomQuote(quoteQueue[n].quotes)) :
          EmitQuoteSelected(n, q)
    /\ quoteQueue' = [quoteQueue EXCEPT ![n] = NoQueue]
    /\ UNCHANGED <<nodeVars, cfgVars, tampers, httpResp, httpBody, mesh, onInference,
                   infEvents, ledgerVars, handled>>
    /\ NoVerify
    /\ NoCall

\* the timer fires with selectHighestStakeQuote: the balances of the quotes
\* collected so far are requested from the ledger
TimerFireStake(n) ==
    /\ quoteQueue[n].phase = "armed"
    /\ Quiet
    /\ selection = "highest-stake"
    /\ quoteQueue' = [quoteQueue EXCEPT ![n].phase = "selecting",
                                        ![n].snap = Len(quoteQueue[n].quotes)]
    /\ UNCHANGED <<nodeVars, cfgVars, routeVars, tampers, selectedCount, lastSelected, httpVars,
                   ledgerVars, stepCount, handled, acceptedTo>>
    /\ NoVerify
    /\ NoCall

\* the balances arrived: select, emit, delete the queue entry
SelectionDone(n) ==
    /\ quoteQueue[n].phase = "selecting"
    /\ Quiet
    /\ \E bal \in [1..quoteQueue[n].snap -> OptInResults] :
          EmitQuoteSelected(n, selectHighestStakeQuote(
              SubSeq(quoteQueue[n].quotes, 1, quoteQueue[n].snap), bal))
    /\ quoteQueue' = [quoteQueue EXCEPT ![n] = NoQueue]
    /\ UNCHANGED <<nodeVars, cfgVars, tampers, httpResp, httpBody, mesh, onInference,
                   infEvents, ledgerVars, handled>>
    /\ NoVerify
    /\ NoCall

\* a balance request failed: the timer callback rejects, nothing is emitted
\* and the queue entry stays
SelectionFail(n) ==
    /\ quoteQueue[n].phase = "selecting"
    /\ Quiet
    /\ quoteQueue' = [quoteQueue EXCEPT ![n].phase = "failed"]
    /\ UNCHANGED <<nodeVars, cfgVars, routeVars, tampers, selectedCount, lastSelected, httpVars,
                   ledgerVars, stepCount, handled, acceptedTo>>
    /\ NoVerify
    /\ NoCall

Next ==
    \/ \E valid \in BOOLEAN : Post(valid)
    \/ MeshReady
    \/ MeshTimeout
    \/ \E d \in net : DropUnaddressed(d)
    \/ \E d \in net : \E e \in Received(d) : Reject(d, e)
    \/ \E d \in net : \E e \in Received(d) : HandleQuoteRequest(d, e)
    \/ \E d \in net : \E e \in Received(d) : HandleQuoteResponse(d, e)
    \/ \E d \in net : \E e \in Received(d) : HandleQuoteAccepted(d, e)
    \/ \E d \in net : \E e \in Received(d) : HandleContractCreated(d, e)
    \/ \E d \in net : \E e \in Received(d) : HandleContractSigned(d, e)
    \/ \E d \in net : \E e \in Received(d) : HandleInferenceResponse(d, e)
    \/ \E n \in Nodes : TimerFire(n)
    \/ \E n \in Nodes : TimerFireStake(n)
    \/ \E n \in Nodes : SelectionDone(n)
    \/ \E n \in Nodes : SelectionFail(n)

Spec == Init /\ [][Next]_vars

(***************************************************************************)
(* The session with a peer that sends the customer an inference-response   *)
(* of its own for the session id, whatever the state of the session: the   *)
(* processor checks the signature against the sender's own wallet and      *)
(* looks up no session before it calls completeQuote and emits the event.  *)
(***************************************************************************)
StrayInferenceResponse(p) ==
    LET m == InferenceResponseMsg(p, QuoteRequestMsg, Customer)
    IN  /\ inbound < MaxInbound
        /\ inbound' = inbound + 1
        /\ net' = net \cup Publish(p, m)
        /\ UNCHANGED <<lastDirect, lastStream, lastInbound, reconnectVars, unitVars,
                       cfgVars, ghosts, lastSend, tampers, engineVars, httpVars,
                       ledgerVars, stepCount, handled, acceptedTo>>
        /\ NoVerify
        /\ NoCall

\* the default selection function, all traffic on gossipsub
InitFacade ==
    /\ selection = DefaultPolicy
    /\ directEnabled = FALSE
    /\ fallbackToGossipsub = TRUE
    /\ Started

NextFacade ==
    \/ \E valid \in BOOLEAN : Post(valid)
    \/ MeshReady
    \/ MeshTimeout
    \/ \E p \in Providers : StrayInferenceResponse(p)
    \/ \E d \in net : DropUnaddressed(d)
    \/ \E d \in net : \E e \in Received(d) : Reject(d, e)
    \/ \E d \in net : \E e \in Received(d) : HandleQuoteRequest(d, e)
    \/ \E d \in net : \E e \in Received(d) : HandleQuoteResponse(d, e)
    \/ \E d \in net : \E e \in Received(d) : HandleQuoteAccepted(d, e)
    \/ \E d \in net : \E e \in Received(d) : HandleContractCreated(d, e)
    \/ \E d \in net : \E e \in Received(d) : HandleContractSigned(d, e)
    \/ \E d \in net : \E e \in Received(d) : HandleInferenceResponse(d, e)
    \/ \E n \in Nodes : TimerFireStake(n)
    \/ \E n \in Nodes : SelectionDone(n)
    \/ \E n \in Nodes : SelectionFail(n)

SpecFacade == InitFacade /\ [][NextFacade]_vars

(***************************************************************************)
(* The router under every kind of call: any role of PubSubMessage, with or *)
(* without a target peer, under every directMessaging configuration and    *)
(* every way the sendDirect call can go.                                   *)
(***************************************************************************)
BroadcastRoles ==
    {"list-models", "list-models-response", "quote-request", "quote-response"}

MessageRoles == BroadcastRoles \cup DirectMessageTypes

Targets == {NoPeer, "p1"}

\* an envelope of the given role as node n builds and signs it
RouterMsg(n, role, target) ==
    LET body == [role |-> role, id |-> SessionId, fromWalletAddr |-> WalletOf[n],
                 payload |-> EmptyPayload]
    IN  Signed(IF target = NoPeer THEN body ELSE With(body, "to", target),
               WalletOf[n])

InitRouter ==
    /\ selection = DefaultPolicy
    /\ directEnabled \in BOOLEAN
    /\ fallbackToGossipsub \in BOOLEAN
    /\ Started

\* one messageRouter.sendMessage(message, targetPeerId) call of the
\* customer's node, with the sendDirect call it makes; net holds what this
\* call put on the wire
RouterSend(role, target, fail) ==
    LET m == RouterMsg(Customer, role, target)
        call == SendDirect(fail)
        s == SendMessage(directEnabled, fallbackToGossipsub, Customer, m,
                         target, Outcome(call))
    IN  /\ fail \in FailPointsAt(ghosts)
        /\ Route(Customer, m, target, Outcome(call), {})
        /\ lastDirect' = IF s.direct > 0 THEN <<call>> ELSE <<>>
        /\ UNCHANGED <<cfgVars, tampers, engineVars, httpVars, ledgerVars,
                       lastVerify, lastCall, stepCount, handled, acceptedTo, ingressVars,
                       reconnectVars, unitVars>>

NextRouter ==
    \E role \in MessageRoles, target \in Targets, fail \in FailPoints :
        RouterSend(role, target, fail)

SpecRouter == InitRouter /\ [][NextRouter]_vars

(***************************************************************************)
(* Ingress: what a node does with messages that any peer may send it, on   *)
(* the topic and on the direct protocol.                                   *)
(***************************************************************************)
\* directMessaging.maxMessageSize
MaxMessageSize == 10485760

FrameLengths == {MaxMessageSize, MaxMessageSize + 1}

\* what can go wrong with one inbound stream besides its size: lp.read
\* rejects, decode throws, the ingress handler rejects
StreamFaults == {"none", "read", "decode", "handler"}

\* a size check that turns away a frame of maxMessageSize bytes too
OversizeAtLimit(len) == len >= MaxMessageSize

\* messageData.length > directMessagingConfig.maxMessageSize
Oversize(len) == len > MaxMessageSize

\* a stream handler without its catch: the rejection is nobody's, the stream
\* is left as it is
HandleStreamUncaught(len, fault) ==
    LET cause == IF fault = "read" THEN "read"
                 ELSE IF Oversize(len) THEN "oversize"
                 ELSE fault
    IN  [len |-> len, cause |-> cause,
         handed |-> cause \in {"none", "handler"},
         aborted |-> FALSE, abortCause |-> "none",
         leaked |-> cause # "none", serving |-> TRUE]

\* The handler registerProtocol registers, for one inbound stream carrying a
\* frame of len bytes: read, size check, decode, onMessage, and the catch
\* that aborts the stream.  handed: onMessage was invoked; leaked: an error
\* left the handler; serving: the protocol handler takes later streams.
HandleStream(len, fault) ==
    LET cause == IF fault = "read" THEN "read"
                 ELSE IF Oversize(len) THEN "oversize"
                 ELSE fault
    IN  [len |-> len, cause |-> cause,
         handed |-> cause \in {"none", "handler"},
         aborted |-> cause # "none", abortCause |-> cause,
         leaked |-> FALSE, serving |-> TRUE]

\* the node under observation and the peer that sends to it
Receiver == "p1"
Sender == Customer
Elsewhere == "p2"

\* roles that process dispatches to a handler
HandledRoles ==
    {"list-models", "list-models-response", "quote-request", "quote-response",
     "quote-accepted", "contract-created", "contract-signed", "inference-response"}

InboundRoles ==
    {"quote-request", "quote-response", "quote-accepted", "contract-created",
     "contract-signed", "inference-response", "ping"}

InboundBody(role, to) ==
    LET body == [role |-> role, id |-> SessionId,
                 fromWalletAddr |-> WalletOf[Sender],
                 payload |-> [EmptyPayload EXCEPT !.totalPrice = PriceOf[Elsewhere],
                                                  !.addr = WalletOf[Sender]]]
    IN  IF to = NoPeer THEN body ELSE With(body, "to", to)

\* the envelope as its sender made it: signed, not signed, claiming a
\* fromWalletAddr that is no address, or signed with another key
InboundForms(body) ==
    {Signed(body, WalletOf[Sender]),
     body,
     Signed(With(body, "fromWalletAddr", "bad"), WalletOf[Sender]),
     Signed(body, WalletOf[Elsewhere])}

InboundEnvelopes ==
    UNION {InboundForms(InboundBody(role, to)) :
              role \in InboundRoles, to \in {NoPeer, Receiver, Elsewhere}}

\* What the listener and process make of msg at node n: the listener's
\* addressing check, then the checks of process in their order, then the
\* role switch
Verdict(n, msg) ==
    IF "to" \in DOMAIN msg /\ msg.to # n THEN "MessageNotAddressedHere"
    ELSE IF ~IsValidAddress(msg.fromWalletAddr) THEN "BadSender"
    ELSE IF "signature" \notin DOMAIN msg THEN "Unsigned"
    ELSE IF ~VerifySignature(msg) THEN "BadSignature"
    ELSE IF msg.role \notin HandledRoles THEN "UnknownRole"
    ELSE "admitted"

\* what is kept of an inbound message: its transport, whether it names an
\* addressee, and what became of it
Arrival(d) ==
    [chan |-> d.chan, addressed |-> "to" \in DOMAIN d.msg,
     verdict |-> Verdict(d.dst, d.msg)]

\* The direct protocol is registered under the default directMessaging
\* configuration; what can be wrong with a message is in the envelopes the
\* peer sends, and the replies of the receiver travel unaltered and without
\* ghost frames.  The peer sends its next message when the work on the
\* previous one is over.
InitIngress ==
    /\ selection = DefaultPolicy
    /\ directEnabled = TRUE
    /\ fallbackToGossipsub = TRUE
    /\ ghosts = MaxGhost
    /\ tampers = MaxTamper
    /\ knownAddrs = FALSE
    /\ NoBids
    /\ ApiUp
    /\ StartedNode

\* a peer opens a stream of the direct protocol to the receiver and writes a
\* frame of len bytes that holds env; inbound counts the messages that
\* reached a listener, afterAbort tells that an earlier stream was aborted
InboundStream(env, len, fault) ==
    LET h == HandleStream(len, fault)
        d == DirectDelivery(Sender, Receiver, env)
        reaches == h.handed /\ ~h.aborted
    IN  /\ inbound < MaxInbound
        /\ net = {}
        /\ directEnabled
        /\ IF lastStream = <<>> THEN TRUE ELSE lastStream[1].serving
        /\ lastStream' = <<With(h, "afterAbort",
                                IF lastStream = <<>> THEN FALSE
                                ELSE lastStream[1].aborted \/ lastStream[1].afterAbort)>>
        /\ inbound' = IF reaches THEN inbound + 1 ELSE inbound
        /\ lastInbound' = IF reaches THEN <<Arrival(d)>> ELSE lastInbound
        /\ net' = IF reaches THEN net \cup {d} ELSE net
        /\ UNCHANGED <<lastDirect, reconnectVars, unitVars, cfgVars, ghosts, lastSend,
                       tampers, engineVars, httpVars, ledgerVars, stepCount,
                       handled, acceptedTo>>
        /\ NoVerify
        /\ NoCall

\* a publication of a peer on the topic reaches the receiver's listener
InboundPublication(env) ==
    LET d == [dst |-> Receiver, src |-> Sender, chan |-> "pubsub", msg |-> env]
    IN  /\ inbound < MaxInbound
        /\ net = {}
        /\ inbound' = inbound + 1
        /\ lastInbound' = <<Arrival(d)>>
        /\ net' = net \cup {d}
        /\ UNCHANGED <<lastDirect, lastStream, reconnectVars, unitVars, cfgVars, ghosts,
                       lastSend, tampers, engineVars, httpVars, ledgerVars,
                       stepCount, handled, acceptedTo>>
        /\ NoVerify
        /\ NoCall

\* the default branch of the role switch: process logs and returns false
RejectUnknownRole(d, e) ==
    /\ d \in net
    /\ ListenerAccepts(d.dst, d.msg)
    /\ Quiet \/ Urgent(d)
    /\ e \in Received(d)
    /\ ProcessAdmits(e)
    /\ e.role \notin HandledRoles
    /\ Tampered(d, e)
    /\ net' = net \ {d}
    /\ UNCHANGED <<nodeVars, cfgVars, ghosts, lastSend, engineVars, httpVars,
                   ledgerVars, stepCount, handled, acceptedTo>>
    /\ NoVerify
    /\ NoCall

NextIngress ==
    \/ \E env \in InboundEnvelopes, len \in FrameLengths, fault \in StreamFaults :
          InboundStream(env, len, fault)
    \/ \E env \in InboundEnvelopes : InboundPublication(env)
    \/ \E d \in net : DropUnaddressed(d)
    \/ \E d \in net : \E e \in Received(d) : Reject(d, e)
    \/ \E d \in net : \E e \in Received(d) : RejectUnknownRole(d, e)
    \/ \E d \in net : \E e \in Received(d) : HandleQuoteRequest(d, e)
    \/ \E d \in net : \E e \in Received(d) : HandleQuoteResponse(d, e)
    \/ \E d \in net : \E e \in Received(d) : HandleQuoteAccepted(d, e)
    \/ \E d \in net : \E e \in Received(d) : HandleContractCreated(d, e)
    \/ \E d \in net : \E e \in Received(d) : HandleContractSigned(d, e)
    \/ \E d \in net : \E e \in Received(d) : HandleInferenceResponse(d, e)

SpecIngress == InitIngress /\ [][NextIngress]_vars

(***************************************************************************)
(* Reconnection supervisor, for one tracked peer: the peer:connect and     *)
(* peer:disconnect listeners, scheduleReconnect, attemptReconnect and the  *)
(* health check of startConnectionHealthCheck.  A callback that awaits a   *)
(* dial is two steps, so that other callbacks run while the dial is under  *)
(* way.  Time moves from one due timer to the next.  The peer was seen     *)
(* within the last hour throughout.                                        *)
(***************************************************************************)
RECURSIVE Pow2(_)
\* Math.pow(2, k)
Pow2(k) == IF k = 0 THEN 1 ELSE 2 * Pow2(k - 1)

\* reconnectAttempts.get(peerId) || { count: 0, lastAttempt: 0 }
CurrentInfo(attempts) ==
    IF attempts = <<>> THEN [count |-> 0, lastAttempt |-> 0] ELSE attempts[1]

\* scheduleReconnect at time t: the entry it leaves, and the delay of the
\* timeout it sets, if it sets one
ScheduleReconnect(attempts, t) ==
    LET kept == IF attempts # <<>> /\ t - attempts[1].lastAttempt > RECONNECT_COOLDOWN
                THEN <<>> ELSE attempts
        currentInfo == CurrentInfo(kept)
    IN  IF currentInfo.count >= MAX_RECONNECT_ATTEMPTS
        THEN [attempts |-> kept, delays |-> <<>>, deleted |-> kept # attempts]
        ELSE [attempts |-> <<[count |-> currentInfo.count + 1, lastAttempt |-> t]>>,
              delays |-> <<RECONNECT_DELAY * Pow2(currentInfo.count)>>,
              deleted |-> kept # attempts]

\* the effect of a scheduleReconnect call made now
CallScheduleReconnect ==
    LET r == ScheduleReconnect(reconnectAttempts, now)
    IN  /\ reconnectAttempts' = r.attempts
        /\ timers' = IF r.delays = <<>> THEN timers
                     ELSE timers (+) SetToBag({now + r.delays[1]})
        /\ scheduled' = (IF r.deleted THEN <<>> ELSE scheduled) \o r.delays

\* reconnectAttempts.delete(peerId)
DeleteAttempts ==
    /\ reconnectAttempts' = <<>>
    /\ scheduled' = <<>>
    /\ failed' = 0

\* every variable the supervisor does not own
sessionVars == <<lastDirect, ingressVars, unitVars, cfgVars, routeVars, tampers, engineVars,
                 httpVars, ledgerVars, lastVerify, lastCall, stepCount, handled, acceptedTo>>

InitReconnect ==
    /\ selection = DefaultPolicy
    /\ directEnabled = TRUE
    /\ fallbackToGossipsub = TRUE
    /\ ghosts = 0
    /\ tampers = 0
    /\ knownAddrs \in BOOLEAN
    /\ NoBids
    /\ ApiUp
    /\ StartedNode

\* peer:connect: the peer connected by itself, or a dial got through
PeerConnect ==
    /\ ~connected
    /\ connects < MaxConnects
    /\ connected' = TRUE
    /\ connects' = connects + 1
    /\ DeleteAttempts
    /\ UNCHANGED <<now, knownAddrs, timers, attemptDials, tick, nextTick, ticks,
                   sessionVars>>

\* peer:disconnect
PeerDisconnect ==
    /\ connected
    /\ connected' = FALSE
    /\ CallScheduleReconnect
    /\ UNCHANGED <<now, knownAddrs, attemptDials, tick, nextTick, ticks, connects,
                   failed, sessionVars>>

\* a timeout set by scheduleReconnect runs attemptReconnect, up to its dial
AttemptReconnect(due) ==
    /\ Alive
    /\ BagIn(due, timers)
    /\ due <= now
    /\ timers' = timers (-) SetToBag({due})
    /\ IF connected
       THEN /\ DeleteAttempts
            /\ UNCHANGED attemptDials
       ELSE /\ attemptDials' = attemptDials + 1
            /\ UNCHANGED <<reconnectAttempts, scheduled, failed>>
    /\ UNCHANGED <<now, connected, knownAddrs, tick, nextTick, ticks, connects,
                   sessionVars>>

\* the dial of an attemptReconnect call is over; a dial that was under way
\* when the peer connected by itself may still fail
AttemptDialDone(ok) ==
    /\ Alive
    /\ attemptDials > 0
    /\ attemptDials' = attemptDials - 1
    /\ IF ok
       THEN /\ connected \/ connects < MaxConnects
            /\ connected' = TRUE
            /\ connects' = IF connected THEN connects ELSE connects + 1
            /\ DeleteAttempts
            /\ UNCHANGED timers
       ELSE /\ CallScheduleReconnect
            /\ failed' = IF ScheduleReconnect(reconnectAttempts, now).deleted
                          THEN 1 ELSE failed + 1
            /\ UNCHANGED <<connected, connects>>
    /\ UNCHANGED <<now, knownAddrs, tick, nextTick, ticks, sessionVars>>

\* the clean-up at the end of a health check that started at time t
CleanUp(attempts, t) ==
    IF attempts # <<>> /\ t - attempts[1].lastAttempt > RECONNECT_COOLDOWN * 2
    THEN <<>> ELSE attempts

\* the effect of a health check's last part on the entry
TickEnds(attempts, t) ==
    /\ reconnectAttempts' = CleanUp(attempts, t)
    /\ scheduled' = IF CleanUp(attempts, t) = <<>> THEN <<>> ELSE scheduled
    /\ failed' = IF CleanUp(attempts, t) = <<>> THEN 0 ELSE failed

\* the health check runs, up to its dial of the tracked peer if it makes one
HealthCheck ==
    LET connectionCount == IF connected THEN 1 ELSE 0
        exhausted == /\ reconnectAttempts # <<>>
                     /\ reconnectAttempts[1].count >= MAX_RECONNECT_ATTEMPTS
        cooled == now - reconnectAttempts[1].lastAttempt > RECONNECT_COOLDOWN
    IN  /\ Alive
        /\ healthCheckIntervalId
        /\ now = nextTick
        /\ ticks < MaxTicks
        /\ tick = <<>>
        /\ ticks' = ticks + 1
        /\ nextTick' = now + CHECK_INTERVAL
        /\ IF connectionCount < MIN_CONNECTIONS /\ ~connected
                /\ (exhausted => cooled)
           THEN /\ tick' = <<[now |-> now]>>
                /\ IF exhausted
                   THEN DeleteAttempts
                   ELSE UNCHANGED <<reconnectAttempts, scheduled, failed>>
           ELSE /\ TickEnds(reconnectAttempts, now)
                /\ UNCHANGED tick
        /\ UNCHANGED <<now, connected, knownAddrs, timers, attemptDials, connects,
                       sessionVars>>

\* the dial of the health check is over: the catch counts a failed dial by
\* peer id, a failed dial of a stored multiaddr is passed over
HealthCheckDialDone(ok) ==
    LET t == tick[1].now
        current == CurrentInfo(reconnectAttempts)
        counted == <<[count |-> current.count + 1, lastAttempt |-> t]>>
    IN  /\ Alive
        /\ tick # <<>>
        /\ tick' = <<>>
        /\ IF ok /\ ~connected
           THEN /\ connects < MaxConnects
                /\ connected' = TRUE
                /\ connects' = connects + 1
                /\ reconnectAttempts' = <<>>
                /\ scheduled' = <<>>
                /\ failed' = 0
           ELSE /\ TickEnds(IF ok \/ knownAddrs THEN reconnectAttempts ELSE counted, t)
                /\ UNCHANGED <<connected, connects>>
        /\ UNCHANGED <<now, knownAddrs, timers, attemptDials, nextTick, ticks,
                       sessionVars>>

\* the times at which a callback is due
DueTimes ==
    BagToSet(timers) \cup (IF ticks < MaxTicks THEN {nextTick} ELSE {})

\* nothing is due: time moves on to the next due time; a health check has
\* its dial behind it before the next one starts
TimePasses ==
    /\ DueTimes # {}
    /\ \A t \in DueTimes : t > now
    /\ LET next == CHOOSE t \in DueTimes : \A u \in DueTimes : t <= u
       IN  /\ tick # <<>> => next < nextTick
           /\ now' = next
    /\ UNCHANGED <<connected, knownAddrs, reconnectAttempts, timers, attemptDials,
                   tick, nextTick, ticks, connects, scheduled, failed, sessionVars>>

NextReconnect ==
    \/ PeerConnect
    \/ PeerDisconnect
    \/ \E due \in BagToSet(timers) : AttemptReconnect(due)
    \/ \E ok \in BOOLEAN : AttemptDialDone(ok)
    \/ HealthCheck
    \/ \E ok \in BOOLEAN : HealthCheckDialDone(ok)
    \/ TimePasses

SpecReconnect == InitReconnect /\ [][NextReconnect]_vars

(***************************************************************************)
(* The quote selection functions, each applied to a list of quote events   *)
(* of distinct bidders in their order of arrival.                          *)
(***************************************************************************)
BidPrices == {17, 123}

\* the quote event the engine keeps for the quote-response of bidder n
BidEvent(n, price) ==
    [msg |-> QuoteResponseMsg(n, QuoteRequestMsg, Customer, price), from |-> n]

\* the lists of k quote events, no bidder twice
BidLists(k) ==
    {[i \in 1..k |-> BidEvent(who[i], price[i])] :
        who \in {w \in [1..k -> Nodes] : \A i, j \in 1..k : w[i] = w[j] => i = j},
        price \in [1..k -> BidPrices]}

InitSelect ==
    /\ selection \in Policies
    /\ directEnabled = FALSE
    /\ fallbackToGossipsub = TRUE
    /\ ghosts = 0
    /\ tampers = 0
    /\ knownAddrs = FALSE
    /\ \E k \in 1..MaxBids :
          /\ bids \in BidLists(k)
          /\ stakes \in [1..k -> OptInResults]
    /\ ApiUp
    /\ StartedNode

\* const selectedQuote = await selectionFunction(quotes)
ApplySelection ==
    /\ chosen = <<>>
    /\ \E q \in (IF selection = "cheapest" THEN {selectCheapestQuote(bids)}
                 ELSE IF selection = "first" THEN {selectFirstQuote(bids)}
                 ELSE IF selection = "random" THEN selectRandomQuote(bids)
                 ELSE {selectHighestStakeQuote(bids, stakes)}) :
          chosen' = <<[policy |-> selection, quote |-> q]>>
    /\ UNCHANGED <<bids, stakes, auctionVars, shutdownVars, dialVars, bootVars, probeVars, lastDirect, ingressVars, reconnectVars,
                   cfgVars, routeVars, tampers, engineVars, httpVars, ledgerVars,
                   lastVerify, lastCall, stepCount, handled, acceptedTo>>

NextSelect == ApplySelection

SpecSelect == InitSelect /\ [][NextSelect]_vars

(***************************************************************************)
(* The quote auction engine of one node, as the object it is: quoteQueue   *)
(* is a plain object keyed by message id, each entry holds the quotes and  *)
(* the handle of its timeout.  The callback of a timeout awaits the        *)
(* selection function, which for selectHighestStakeQuote is an exchange    *)
(* with the ledger during which other callbacks run.                       *)
(***************************************************************************)
\* Object.keys(this.quoteQueue).includes(id): the own properties; an
\* assignment to "__proto__" never creates one
HasOwnKey(id) == id \in OrdinaryIds /\ ownEntries[id] # <<>>

\* this.quoteQueue[id].quotes: of the own property, or for "__proto__" of
\* the object the accessor returns, the prototype
GetQuotes(id) ==
    IF id \in OrdinaryIds THEN ownEntries[id] ELSE protoEntry

\* this.quoteQueue[id] = { quotes, timeout }: for "__proto__" the accessor
\* of Object.prototype makes the entry the prototype of quoteQueue
SetEntry(id, quotes) ==
    IF id \in OrdinaryIds
    THEN /\ ownEntries' = [ownEntries EXCEPT ![id] = <<quotes>>]
         /\ UNCHANGED protoEntry
    ELSE /\ protoEntry' = <<quotes>>
         /\ UNCHANGED ownEntries

\* delete this.quoteQueue[id]: removes an own property if there is one
DeleteEntry(id) ==
    /\ ownEntries' = [i \in OrdinaryIds |-> IF i = id THEN <<>> ELSE ownEntries[i]]
    /\ UNCHANGED protoEntry

\* everything outside the engine
aroundEngine == <<selectVars, shutdownVars, dialVars, bootVars, probeVars, lastDirect, ingressVars, reconnectVars, routeVars,
                  tampers, engineVars, httpVars, ledgerVars, lastVerify, lastCall, stepCount,
                  handled, acceptedTo>>

InitEngine ==
    /\ selection \in Policies
    /\ directEnabled = FALSE
    /\ fallbackToGossipsub = TRUE
    /\ ghosts = 0
    /\ tampers = 0
    /\ knownAddrs = FALSE
    /\ NoBids
    /\ ApiUp
    /\ StartedNode

\* quoteEngine.addQuote with the quote-response of bidder n for id
EngineAddQuote(id, n) ==
    LET quoteEvent == BidEvent(n, PriceOf[n])
    IN  /\ Len(arrivals) < MaxArrivals
        /\ arrivals' = Append(arrivals, [id |-> id, quoteEvent |-> quoteEvent])
        /\ IF ~HasOwnKey(id)
           THEN /\ SetEntry(id, <<quoteEvent>>)
                /\ armed' = [armed EXCEPT ![id] = @ + 1]
           ELSE /\ SetEntry(id, Append(GetQuotes(id)[1], quoteEvent))
                /\ UNCHANGED armed
        /\ UNCHANGED <<selecting, emitted, lastEmit, closed, cfgVars, aroundEngine>>

\* emit(quote-selected-<id>, selectedQuote); delete this.quoteQueue[id]
EngineEmit(id, quote, quotes) ==
    /\ emitted' = [emitted EXCEPT ![id] = @ + 1]
    /\ lastEmit' = <<[id |-> id, quote |-> quote, quotes |-> quotes]>>
    /\ closed' = [closed EXCEPT ![id] = @ + 1]
    /\ DeleteEntry(id)

\* a window timeout of id runs: a selection function that does no I/O
\* returns within the callback, selectHighestStakeQuote is awaited
EngineTimeout(id) ==
    LET quotes == GetQuotes(id)[1]
    IN  /\ Alive
        /\ armed[id] > 0
        /\ armed' = [armed EXCEPT ![id] = @ - 1]
        /\ IF selection = "highest-stake"
           THEN /\ selecting' = [selecting EXCEPT ![id] = Append(@, quotes)]
                /\ UNCHANGED <<ownEntries, protoEntry, emitted, lastEmit, closed>>
           ELSE /\ \E q \in (IF selection = "cheapest" THEN {selectCheapestQuote(quotes)}
                              ELSE IF selection = "first" THEN {selectFirstQuote(quotes)}
                              ELSE selectRandomQuote(quotes)) :
                      EngineEmit(id, q, quotes)
                /\ UNCHANGED selecting
        /\ UNCHANGED <<arrivals, cfgVars, aroundEngine>>

\* the i-th awaited selection of id is over: the ledger answered every
\* balance request (ok), or one of them threw and the callback rejects
EngineSelected(id, i, ok) ==
    /\ Alive
    /\ i \in 1..Len(selecting[id])
    /\ selecting' = [selecting EXCEPT ![id] =
                        SubSeq(@, 1, i - 1) \o SubSeq(@, i + 1, Len(@))]
    /\ IF ok
       THEN \E bal \in [1..Len(selecting[id][i]) -> OptInResults] :
               EngineEmit(id, selectHighestStakeQuote(selecting[id][i], bal),
                          selecting[id][i])
       ELSE /\ closed' = [closed EXCEPT ![id] = @ + 1]
            /\ UNCHANGED <<ownEntries, protoEntry, emitted, lastEmit>>
    /\ UNCHANGED <<armed, arrivals, cfgVars, aroundEngine>>

NextEngine ==
    \/ \E id \in SessionIds, n \in Providers : EngineAddQuote(id, n)
    \/ \E id \in SessionIds : EngineTimeout(id)
    \/ \E id \in SessionIds, i \in 1..MaxArrivals, ok \in BOOLEAN : EngineSelected(id, i, ok)

SpecEngine == InitEngine /\ [][NextEngine]_vars

(***************************************************************************)
(* Graceful shutdown: Application.shutdown, called on SIGTERM and SIGINT,  *)
(* and the timers that are set when it is called.  The signal comes at     *)
(* the time of the first health check, 5 s after the tracked peer may have *)
(* disconnected and after a quote-response may have opened a window; the   *)
(* steps of shutdown are over before the next timer after these is due.    *)
(***************************************************************************)
\* process.exit(code) that returned to its caller
ProcessExitReturns(code) == UNCHANGED exitCode

\* process.exit(code): the process ends, and with it every timer
ProcessExit(code) == exitCode' = <<code>>

\* the supervisor at the time of the signal: the peer is connected, or it
\* disconnected RECONNECT_DELAY ago
SupervisorAtSignal ==
    LET lost == ScheduleReconnect(<<>>, CHECK_INTERVAL - RECONNECT_DELAY)
    IN  /\ now = CHECK_INTERVAL
        /\ nextTick = CHECK_INTERVAL
        /\ nextPing = CHECK_INTERVAL
        /\ attemptDials = 0
        /\ tick = <<>>
        /\ ticks = 0
        /\ connects = 0
        /\ failed = 0
        /\ \/ /\ connected = TRUE
              /\ reconnectAttempts = <<>>
              /\ timers = EmptyBag
              /\ scheduled = <<>>
           \/ /\ connected = FALSE
              /\ reconnectAttempts = lost.attempts
              /\ timers = SetToBag({CHECK_INTERVAL - RECONNECT_DELAY + lost.delays[1]})
              /\ scheduled = lost.delays

\* the engine at the time of the signal: idle, or one bid has opened the
\* window of the session
EngineAtSignal ==
    LET quoteEvent == BidEvent("p1", PriceOf["p1"])
    IN  \/ EngineIdle
        \/ /\ ownEntries = [id \in OrdinaryIds |-> <<<<quoteEvent>>>>]
           /\ protoEntry = <<>>
           /\ armed = [id \in SessionIds |-> IF id \in OrdinaryIds THEN 1 ELSE 0]
           /\ selecting = [id \in SessionIds |-> <<>>]
           /\ emitted = [id \in SessionIds |-> 0]
           /\ lastEmit = <<>>
           /\ closed = [id \in SessionIds |-> 0]
           /\ arrivals = <<[id |-> SessionId, quoteEvent |-> quoteEvent]>>

InitShutdown ==
    /\ selection = DefaultPolicy
    /\ directEnabled = FALSE
    /\ fallbackToGossipsub = TRUE
    /\ ghosts = 0
    /\ tampers = 0
    /\ knownAddrs = FALSE
    /\ NoBids
    /\ apiServer \in {"none", "listening", "failed"}
    /\ requests \in (IF apiServer = "listening" THEN {0, 1} ELSE {0})
    /\ SupervisorAtSignal
    /\ EngineAtSignal
    /\ ShutdownIdle
    /\ SessionIdle
    /\ ProbeIdle
    /\ DialIdle
    /\ BootstrapIdle

\* everything shutdown and the keep-alive round leave alone
aroundShutdown == <<selectVars, auctionVars, dialVars, bootVars, probeVars, lastDirect, ingressVars, cfgVars,
                    routeVars, tampers, engineVars, httpVars, ledgerVars, lastVerify, lastCall,
                    stepCount, handled, acceptedTo, now, connected, knownAddrs,
                    reconnectAttempts, timers, attemptDials, tick, nextTick, ticks,
                    connects, scheduled, failed>>

\* steps 2 and 3 of shutdown and the call of node.stop(), which is awaited
CancelAndStop(done) ==
    /\ healthCheckIntervalId' = FALSE
    /\ subscribed' = FALSE
    /\ steps' = done \o <<"timers-cancelled", "unsubscribed", "node-stop">>
    /\ shutdownAt' = "stoppingNode"
    /\ UNCHANGED <<exitCode, keepAliveTimer>>

\* a signal arrives: shutdown runs up to its first await
Shutdown ==
    /\ Alive
    /\ signals < MaxSignals
    /\ signals' = signals + 1
    /\ IF isShuttingDown
       THEN UNCHANGED <<apiServer, isShuttingDown, shutdownAt, steps, exitCode,
                        healthCheckIntervalId, keepAliveTimer, subscribed>>
       ELSE /\ isShuttingDown' = TRUE
            /\ IF apiServer = "none"
               THEN /\ CancelAndStop(<<>>)
                    /\ UNCHANGED apiServer
               ELSE /\ apiServer' = IF apiServer = "listening" THEN "closing"
                                     ELSE apiServer
                    /\ steps' = <<"http-close">>
                    /\ shutdownAt' = "closingApi"
                    /\ UNCHANGED <<exitCode, healthCheckIntervalId, keepAliveTimer,
                                   subscribed>>
    /\ UNCHANGED <<requests, pings, nextPing, aroundShutdown>>

\* an open request is answered, or its connection ends
RequestEnds ==
    /\ Alive
    /\ requests > 0
    /\ requests' = requests - 1
    /\ UNCHANGED <<apiServer, isShuttingDown, shutdownAt, steps, exitCode, signals,
                   healthCheckIntervalId, keepAliveTimer, subscribed, pings, nextPing,
                   aroundShutdown>>

\* the callback of apiServer.close: with an error when the server was not
\* running, else once the last connection has ended
ApiClosed ==
    /\ Alive
    /\ shutdownAt = "closingApi"
    /\ IF apiServer = "failed"
       THEN /\ ProcessExit(1)
            /\ shutdownAt' = "done"
            /\ UNCHANGED <<apiServer, steps, healthCheckIntervalId, keepAliveTimer,
                           subscribed>>
       ELSE /\ requests = 0
            /\ apiServer' = "closed"
            /\ CancelAndStop(Append(steps, "http-closed"))
    /\ UNCHANGED <<requests, isShuttingDown, signals, pings, nextPing, aroundShutdown>>

\* node.stop() settles: process.exit(0), or process.exit(1) from the catch
NodeStopped(ok) ==
    /\ Alive
    /\ shutdownAt = "stoppingNode"
    /\ shutdownAt' = "done"
    /\ steps' = IF ok THEN Append(steps, "node-stopped") ELSE steps
    /\ ProcessExit(IF ok THEN 0 ELSE 1)
    /\ UNCHANGED <<apiServer, requests, isShuttingDown, signals,
                   healthCheckIntervalId, keepAliveTimer, subscribed, pings, nextPing,
                   aroundShutdown>>

\* the interval callback of startKeepAlive
KeepAliveRound ==
    /\ Alive
    /\ keepAliveTimer
    /\ nextPing <= now
    /\ pings' = pings + 1
    /\ nextPing' = nextPing + PING_INTERVAL
    /\ UNCHANGED <<apiServer, requests, isShuttingDown, shutdownAt, steps, exitCode,
                   signals, healthCheckIntervalId, keepAliveTimer, subscribed,
                   aroundShutdown>>

NextShutdown ==
    \/ Shutdown
    \/ RequestEnds
    \/ ApiClosed
    \/ \E ok \in BOOLEAN : NodeStopped(ok)
    \/ KeepAliveRound
    \/ HealthCheck
    \/ \E ok \in BOOLEAN : HealthCheckDialDone(ok)
    \/ \E due \in BagToSet(timers) : AttemptReconnect(due)
    \/ \E ok \in BOOLEAN : AttemptDialDone(ok)
    \/ \E id \in SessionIds : EngineTimeout(id)
    \/ \E id \in SessionIds, i \in 1..MaxArrivals, ok \in BOOLEAN : EngineSelected(id, i, ok)

SpecShutdown == InitShutdown /\ [][NextShutdown]_vars

(***************************************************************************)
(* attemptReconnect, dial by dial: the timeout set by scheduleReconnect    *)
(* for the tracked peer has expired; knownPeers stores up to two           *)
(* multiaddrs for the peer.                                                *)
(***************************************************************************)
\* the multiaddrs a peer may be discovered with or connected from
Multiaddrs == {"/ip4/10.0.0.1/tcp/4001", "/ip4/10.0.0.2/tcp/4001"}

\* the lists knownPeers may hold for the peer, in the order of insertion
MultiaddrLists ==
    {<<>>} \cup {<<a>> : a \in Multiaddrs}
           \cup {<<a, b>> : a, b \in Multiaddrs}

\* what node.dial is called with when it is called with the peer id
PeerIdTarget == "peerId"

\* attemptReconnect without the fallback: after the last stored multiaddr
\* has failed no further dial is made
AfterFailedDialNoFallback(addrs, index) ==
    IF index = 0 \/ index >= Len(addrs)
    THEN <<>>
    ELSE <<[target |-> addrs[index + 1], index |-> index + 1]>>

\* the first dial of attemptReconnect: the first stored multiaddr, or the
\* peer id when none is stored; index 0 marks the dial by peer id
FirstDial(addrs) ==
    IF addrs # <<>>
    THEN <<[target |-> addrs[1], index |-> 1]>>
    ELSE <<[target |-> PeerIdTarget, index |-> 0]>>

\* the dial attemptReconnect makes after the dial at index has failed: the
\* next stored multiaddr, after the last of them the peer id, after the peer
\* id none (the error reaches the outer catch)
AfterFailedDial(addrs, index) ==
    IF index = 0
    THEN <<>>
    ELSE IF index < Len(addrs)
         THEN <<[target |-> addrs[index + 1], index |-> index + 1]>>
         ELSE <<[target |-> PeerIdTarget, index |-> 0]>>

\* when the c-th scheduleReconnect call of a run of failed attempts is made,
\* the peer having disconnected at 0 and every dial failing at once
RECURSIVE AttemptTime(_)
AttemptTime(c) ==
    IF c = 1 THEN 0 ELSE AttemptTime(c - 1) + RECONNECT_DELAY * Pow2(c - 2)

\* the timeout of the c-th scheduleReconnect call has expired; the peer may
\* have connected by itself in the meantime
InitAttempt ==
    /\ selection = DefaultPolicy
    /\ directEnabled = TRUE
    /\ fallbackToGossipsub = TRUE
    /\ ghosts = 0
    /\ tampers = 0
    /\ NoBids
    /\ ApiUp
    /\ EngineIdle
    /\ ShutdownIdle
    /\ SessionIdle
    /\ ProbeIdle
    /\ BootstrapIdle
    /\ nextPing = PING_INTERVAL
    /\ multiaddrs \in MultiaddrLists
    /\ knownAddrs = (multiaddrs # <<>>)
    /\ dialing = <<>>
    /\ dialed = <<>>
    /\ rescheduled = 0
    /\ connected \in BOOLEAN
    /\ \E c \in 1..MAX_RECONNECT_ATTEMPTS :
          /\ reconnectAttempts = <<[count |-> c, lastAttempt |-> AttemptTime(c)]>>
          /\ now = AttemptTime(c + 1)
          /\ timers = SetToBag({AttemptTime(c + 1)})
          /\ scheduled = [i \in 1..c |-> RECONNECT_DELAY * Pow2(i - 1)]
          /\ failed = c - 1
    /\ attemptDials = 0
    /\ tick = <<>>
    /\ nextTick = CHECK_INTERVAL
    /\ ticks = 0
    /\ connects = 0

\* everything attemptReconnect leaves alone
aroundAttempt == <<selectVars, auctionVars, shutdownVars, bootVars, probeVars, lastDirect,
                   ingressVars, cfgVars, routeVars, tampers, engineVars, httpVars,
                   ledgerVars, lastVerify, lastCall, stepCount, handled, acceptedTo, now,
                   knownAddrs, multiaddrs, attemptDials, tick, nextTick, ticks>>

\* the timeout runs attemptReconnect, up to its first dial
AttemptStart(due) ==
    /\ Alive
    /\ dialing = <<>>
    /\ BagIn(due, timers)
    /\ due <= now
    /\ timers' = timers (-) SetToBag({due})
    /\ dialed' = <<>>
    /\ IF connected
       THEN /\ DeleteAttempts
            /\ UNCHANGED dialing
       ELSE /\ dialing' = FirstDial(multiaddrs)
            /\ UNCHANGED <<reconnectAttempts, scheduled, failed>>
    /\ UNCHANGED <<connected, connects, rescheduled, aroundAttempt>>

\* the awaited dial is over: on success the entry is deleted and the call
\* returns; on failure the next dial starts or, after the dial by peer id,
\* the outer catch calls scheduleReconnect
AttemptDial(ok) ==
    LET d == dialing[1]
    IN  /\ Alive
        /\ dialing # <<>>
        /\ dialed' = Append(dialed, [target |-> d.target, ok |-> ok])
        /\ IF ok
           THEN /\ connects < MaxConnects
                /\ connected' = TRUE
                /\ connects' = connects + 1
                /\ DeleteAttempts
                /\ dialing' = <<>>
                /\ UNCHANGED <<timers, rescheduled>>
           ELSE /\ dialing' = AfterFailedDial(multiaddrs, d.index)
                /\ IF AfterFailedDial(multiaddrs, d.index) = <<>>
                   THEN /\ CallScheduleReconnect
                        /\ rescheduled' = rescheduled + 1
                        /\ failed' = IF ScheduleReconnect(reconnectAttempts, now).deleted
                                      THEN 1 ELSE failed + 1
                   ELSE UNCHANGED <<reconnectAttempts, timers, scheduled, failed,
                                    rescheduled>>
                /\ UNCHANGED <<connected, connects>>
        /\ UNCHANGED aroundAttempt

NextAttempt ==
    \/ \E due \in BagToSet(timers) : AttemptStart(due)
    \/ \E ok \in BOOLEAN : AttemptDial(ok)

SpecAttempt == InitAttempt /\ [][NextAttempt]_vars

(***************************************************************************)
(* The health check of a node that knows no peer but its bootstrap         *)
(* servers: the part of the callback that calls reconnectToBootstrap.  A   *)
(* connection to a bootstrap server, once made, stays.  A dial takes any   *)
(* time; setInterval runs the callback every CHECK_INTERVAL whether or not *)
(* an earlier callback has returned.                                       *)
(***************************************************************************)
\* Application.BOOTSTRAP_RETRY_INTERVAL, in ms
BOOTSTRAP_RETRY_INTERVAL == 120000

\* reconnectToBootstrap: the wait after a loop in which a dial succeeded
SETTLE_DELAY == 5000

\* what lookupBootstrapServers may return
BootstrapLists ==
    {<<>>, <<"/dns4/boot1/tcp/4001">>, <<"/dns4/boot1/tcp/4001", "/dns4/boot2/tcp/4001">>}

\* the health check with the retry interval applied to every branch
BootstrapDueThrottled(connectionCount, t, last) ==
    (t - last) > BOOTSTRAP_RETRY_INTERVAL

\* the health check, below the minimum of connections, calls
\* reconnectToBootstrap: always with no connection, otherwise when the last
\* call is longer ago than the retry interval
BootstrapDue(connectionCount, t, last) ==
    \/ connectionCount = 0
    \/ (t - last) > BOOTSTRAP_RETRY_INTERVAL

InitBootstrap ==
    /\ selection = DefaultPolicy
    /\ directEnabled = TRUE
    /\ fallbackToGossipsub = TRUE
    /\ ghosts = 0
    /\ tampers = 0
    /\ knownAddrs = FALSE
    /\ NoBids
    /\ ApiUp
    /\ EngineIdle
    /\ ShutdownIdle
    /\ SessionIdle
    /\ ProbeIdle
    /\ DialIdle
    /\ nextPing = PING_INTERVAL
    /\ now = 0
    /\ connected = FALSE
    /\ reconnectAttempts = <<>>
    /\ timers = EmptyBag
    /\ attemptDials = 0
    /\ tick = <<>>
    /\ nextTick = CHECK_INTERVAL
    /\ ticks = 0
    /\ connects = 0
    /\ scheduled = <<>>
    /\ failed = 0
    /\ bootstrapAddresses \in BootstrapLists
    /\ bootConns = {}
    /\ lastBootstrapAttempt = 0
    /\ bootTick = <<>>
    /\ bootRuns = <<>>

\* everything this part of the health check leaves alone
aroundBootstrap == <<selectVars, auctionVars, shutdownVars, dialVars, probeVars, lastDirect,
                     ingressVars, cfgVars, routeVars, tampers, engineVars, httpVars,
                     ledgerVars, lastVerify, lastCall, stepCount, handled, acceptedTo,
                     connected, knownAddrs, reconnectAttempts, timers, attemptDials,
                     tick, connects, scheduled, failed, bootstrapAddresses>>

\* the calls kept in bootRuns once the call r is made
RunsWith(r) ==
    <<r>> \o (IF bootRuns # <<>> /\ bootRuns[1].connectionCount > 0
              THEN <<bootRuns[1]>>
              ELSE IF Len(bootRuns) = 2 THEN <<bootRuns[2]>> ELSE <<>>)

\* the sequence without its k-th element
Without(seq, k) == [i \in 1..(Len(seq) - 1) |-> IF i < k THEN seq[i] ELSE seq[i + 1]]

\* the health check runs, up to the first dial of reconnectToBootstrap if
\* it makes one; with no bootstrap address reconnectToBootstrap returns 0 at
\* once.  knownPeers holds connected peers only, so that the loop over it
\* and the clean-up change nothing.
BootstrapHealthCheck ==
    LET connectionCount == Cardinality(bootConns)
    IN  /\ Alive
        /\ healthCheckIntervalId
        /\ now = nextTick
        /\ ticks < MaxTicks
        /\ ticks' = ticks + 1
        /\ nextTick' = now + CHECK_INTERVAL
        /\ IF /\ connectionCount < MIN_CONNECTIONS
              /\ BootstrapDue(connectionCount, now, lastBootstrapAttempt)
           THEN /\ bootRuns' = RunsWith([at |-> now, connectionCount |-> connectionCount,
                                         last |-> lastBootstrapAttempt])
                /\ IF bootstrapAddresses = <<>>
                   THEN /\ lastBootstrapAttempt' = now
                        /\ UNCHANGED bootTick
                   ELSE /\ Len(bootTick) < MaxRuns
                        /\ bootTick' = Append(bootTick, [now |-> now, index |-> 1,
                                                         successCount |-> 0, wake |-> 0])
                        /\ UNCHANGED lastBootstrapAttempt
           ELSE UNCHANGED <<bootRuns, lastBootstrapAttempt, bootTick>>
        /\ UNCHANGED <<now, bootConns, aroundBootstrap>>

\* the awaited dial of a bootstrap address is over in the k-th callback; the
\* dial of a connected server resolves to its connection.  After the last
\* address, with no dial through, reconnectToBootstrap returns and the time
\* of the attempt is set; with a dial through, the wait for the mesh starts.
BootstrapDial(k, ok) ==
    LET t == bootTick[k]
        addr == bootstrapAddresses[t.index]
        successCount == IF ok THEN t.successCount + 1 ELSE t.successCount
        last == t.index = Len(bootstrapAddresses)
    IN  /\ Alive
        /\ k \in 1..Len(bootTick)
        /\ t.index <= Len(bootstrapAddresses)
        /\ addr \in bootConns => ok
        /\ bootConns' = IF ok THEN bootConns \cup {addr} ELSE bootConns
        /\ IF last /\ successCount = 0
           THEN /\ bootTick' = Without(bootTick, k)
                /\ lastBootstrapAttempt' = t.now
           ELSE /\ bootTick' = [bootTick EXCEPT ![k] =
                                   [t EXCEPT !.index = t.index + 1,
                                             !.successCount = successCount,
                                             !.wake = IF last THEN now + SETTLE_DELAY
                                                      ELSE 0]]
                /\ UNCHANGED lastBootstrapAttempt
        /\ UNCHANGED <<now, nextTick, ticks, bootRuns, aroundBootstrap>>

\* the wait for the mesh is over in the k-th callback: reconnectToBootstrap
\* returns, the time of the attempt is set to when that health check started
BootstrapSettled(k) ==
    LET t == bootTick[k]
    IN  /\ Alive
        /\ k \in 1..Len(bootTick)
        /\ t.index > Len(bootstrapAddresses)
        /\ t.wake <= now
        /\ bootTick' = Without(bootTick, k)
        /\ lastBootstrapAttempt' = t.now
        /\ UNCHANGED <<now, nextTick, ticks, bootConns, bootRuns, aroundBootstrap>>

\* when a timer of this part of the node is due: the interval of the health
\* check, the waits for the mesh
BootstrapDueTimes ==
    (IF ticks < MaxTicks THEN {nextTick} ELSE {})
        \cup {bootTick[k].wake : k \in {i \in 1..Len(bootTick) :
                                          bootTick[i].index > Len(bootstrapAddresses)}}

\* no timer is due: time moves on to the next one, dials being under way or
\* not
BootstrapTimePasses ==
    /\ BootstrapDueTimes # {}
    /\ \A t \in BootstrapDueTimes : t > now
    /\ now' = CHOOSE t \in BootstrapDueTimes : \A u \in BootstrapDueTimes : t <= u
    /\ UNCHANGED <<nextTick, ticks, bootConns, lastBootstrapAttempt, bootTick,
                   bootRuns, aroundBootstrap>>

NextBootstrap ==
    \/ BootstrapHealthCheck
    \/ \E k \in 1..MaxRuns, ok \in BOOLEAN : BootstrapDial(k, ok)
    \/ \E k \in 1..MaxRuns : BootstrapSettled(k)
    \/ BootstrapTimePasses

SpecBootstrap == InitBootstrap /\ [][NextBootstrap]_vars

(***************************************************************************)
(* MessageProcessor.process on one message, check by check: the message    *)
(* may lack fromWalletAddr, carry one that is no address, lack a           *)
(* signature, carry the signature of another key, carry a role no case of  *)
(* the switch names, or several of these at once.                          *)
(***************************************************************************)
\* a processor that looks for the signature before it looks at the address
ProcessOrderSignatureFirst == <<"signature", "address", "verifySignature", "role">>

\* the checks of process in the order of its statements
ProcessOrder == <<"address", "signature", "verifySignature", "role">>

\* whether msg passes the check c
CheckPasses(c, msg) ==
    IF c = "address"
    THEN "fromWalletAddr" \in DOMAIN msg /\ IsValidAddress(msg.fromWalletAddr)
    ELSE IF c = "signature" THEN "signature" \in DOMAIN msg
    ELSE IF c = "verifySignature" THEN VerifySignature(msg)
    ELSE msg.role \in HandledRoles

ProcessBody(role) ==
    [role |-> role, id |-> SessionId, fromWalletAddr |-> WalletOf[Sender],
     payload |-> EmptyPayload]

\* the message as its sender made it
ProcessForms(body) ==
    {Signed(body, WalletOf[Sender]),
     body,
     Signed(body, WalletOf[Elsewhere]),
     Signed(With(body, "fromWalletAddr", "bad"), WalletOf[Sender]),
     With(body, "fromWalletAddr", "bad"),
     [k \in (DOMAIN body) \ {"fromWalletAddr"} |-> body[k]],
     With([k \in (DOMAIN body) \ {"fromWalletAddr"} |-> body[k]], "signature",
          SignObject(body, WalletOf[Sender]))}

ProcessEnvelopes == UNION {ProcessForms(ProcessBody(role)) : role \in InboundRoles}

InitProcess ==
    /\ AtRest
    /\ SupervisorIdle
    /\ knownAddrs = FALSE
    /\ RecordIdle
    /\ posts = <<>>
    /\ envelope \in {<<m>> : m \in ProcessEnvelopes}
    /\ processed = <<[checks |-> <<>>, handler |-> "none", result |-> "running"]>>

\* every variable but those of probeVars
aroundProbes == <<selectVars, auctionVars, shutdownVars, dialVars, bootVars, lastDirect,
                  ingressVars, reconnectVars, cfgVars, routeVars, tampers, engineVars,
                  httpVars, ledgerVars, lastVerify, lastCall, stepCount, handled,
                  acceptedTo>>

\* the next if of process: a message that fails it makes process return false
ProcessCheck ==
    LET r == processed[1]
        c == ProcessOrder[Len(r.checks) + 1]
    IN  /\ r.result = "running"
        /\ Len(r.checks) < 3
        /\ processed' = <<[r EXCEPT !.checks = Append(@, c),
                                    !.result = IF CheckPasses(c, envelope[1])
                                               THEN "running" ELSE "false"]>>
        /\ UNCHANGED <<envelope, lastSeen, peerEvent, posts, aroundProbes>>

\* the switch inside try: the handler of the role runs and returns or
\* throws; the default case returns false
ProcessDispatch ==
    LET r == processed[1]
        c == ProcessOrder[Len(r.checks) + 1]
    IN  /\ r.result = "running"
        /\ Len(r.checks) = 3
        /\ \E ok \in BOOLEAN :
             processed' = <<[checks |-> Append(r.checks, c),
                             handler |-> IF CheckPasses(c, envelope[1])
                                         THEN envelope[1].role ELSE "none",
                             result |-> IF CheckPasses(c, envelope[1])
                                        THEN ProcessResult(ok) ELSE "false"]>>
        /\ UNCHANGED <<envelope, lastSeen, peerEvent, posts, aroundProbes>>

NextProcess ==
    \/ ProcessCheck
    \/ ProcessDispatch

SpecProcess == InitProcess /\ [][NextProcess]_vars

(***************************************************************************)
(* The ids the facade gives to the quote-requests it builds: requests      *)
(* arrive at any time, with any body, several of them within one ms.       *)
(***************************************************************************)
\* a valid body: the model and the conversation under messages or inputs
Bodies ==
    [model : {RequestedModel}, field : {"messages", "inputs"}, content : {"a", "b"}]

\* req.body.inputs = req.body.messages; delete req.body.messages
Normalized(body) == [body EXCEPT !.field = "inputs"]

\* sha256(Date.now().toString() + JSON.stringify(req.body)).slice(0, 56):
\* a hash without collisions, which is the same for the same time and the
\* same body and differs otherwise
QuoteId(at, body) == <<at, body>>

InitIds ==
    /\ AtRest
    /\ SupervisorIdle
    /\ knownAddrs = FALSE
    /\ RecordIdle
    /\ ProcessorIdle
    /\ posts = <<>>

\* every variable but posts and now
aroundIds == <<selectVars, auctionVars, shutdownVars, dialVars, bootVars, lastDirect,
               ingressVars, cfgVars, routeVars, tampers, engineVars, httpVars,
               ledgerVars, lastVerify, lastCall, stepCount, handled, acceptedTo,
               connected, knownAddrs, reconnectAttempts, timers, attemptDials, tick,
               nextTick, ticks, connects, scheduled, failed, lastSeen, peerEvent,
               envelope, processed>>

\* POST /v1/chat/completions with a valid body, up to the quote-request
PostRequest(body) ==
    /\ Len(posts) < MaxPosts
    /\ posts' = Append(posts, [at |-> now, body |-> body,
                               id |-> QuoteId(now, Normalized(body))])
    /\ UNCHANGED <<now, aroundIds>>

\* a millisecond passes
ClockTicks ==
    /\ now < MaxClock
    /\ now' = now + 1
    /\ UNCHANGED <<posts, aroundIds>>

NextIds ==
    \/ \E body \in Bodies : PostRequest(body)
    \/ ClockTicks

SpecIds == InitIds /\ [][NextIds]_vars

(***************************************************************************)
(* The knownPeers record of one peer under peer:discovery, peer:connect    *)
(* and the clean-up of the health check, over days.  The node keeps at     *)
(* least MIN_CONNECTIONS connections to other peers, so that the health    *)
(* check dials nobody and only cleans up; the tracked peer, once           *)
(* connected, stays connected.  The health checks between two moments of   *)
(* PeerStep find what the one at the later moment finds.                   *)
(***************************************************************************)
ONE_DAY == 86400000

\* the time between two moments the record is looked at: 720 check intervals
PeerStep == 720 * CHECK_INTERVAL

\* what peerEvent keeps of a change of the record
RecordChange(kind, addrs) ==
    <<[kind |-> kind, had |-> lastSeen # <<>>, lastSeen |-> lastSeen,
       before |-> multiaddrs, addrs |-> addrs, connected |-> connected, at |-> now]>>

InitPeers ==
    /\ AtRest
    /\ ProcessorIdle
    /\ posts = <<>>
    /\ RecordIdle
    /\ knownAddrs = FALSE
    /\ now = 0
    /\ connected = FALSE
    /\ reconnectAttempts = <<>>
    /\ timers = EmptyBag
    /\ attemptDials = 0
    /\ tick = <<>>
    /\ nextTick = PeerStep
    /\ ticks = 0
    /\ connects = 0
    /\ scheduled = <<>>
    /\ failed = 0

\* every variable the record's specification leaves alone
aroundPeers == <<selectVars, auctionVars, shutdownVars, bootVars, lastDirect,
                 ingressVars, cfgVars, routeVars, tampers, engineVars, httpVars,
                 ledgerVars, lastVerify, lastCall, stepCount, handled, acceptedTo,
                 timers, attemptDials, tick, connects, scheduled, failed,
                 dialing, dialed, rescheduled, envelope, processed, posts>>

\* the peer:discovery listener: the record is set anew with the multiaddrs
\* of the event, then the peer is dialled; a dial that connects runs the
\* peer:connect listener, which finds the record
PeerDiscovery(addrs, ok) ==
    /\ lastSeen' = <<now>>
    /\ multiaddrs' = addrs
    /\ knownAddrs' = (addrs # <<>>)
    /\ connected' = (connected \/ ok)
    /\ reconnectAttempts' = <<>>
    /\ peerEvent' = RecordChange("discovery", addrs)
    /\ UNCHANGED <<now, nextTick, ticks, aroundPeers>>

\* the peer:connect listener for a connection the peer opened from addr:
\* lastSeen of the record is set, or a record with no multiaddrs is made
PeerConnected(addr) ==
    /\ ~connected
    /\ connected' = TRUE
    /\ reconnectAttempts' = <<>>
    /\ lastSeen' = <<now>>
    /\ multiaddrs' = IF lastSeen # <<>> THEN multiaddrs ELSE <<>>
    /\ knownAddrs' = (multiaddrs' # <<>>)
    /\ peerEvent' = RecordChange("connect", <<addr>>)
    /\ UNCHANGED <<now, nextTick, ticks, aroundPeers>>

\* the health check with enough connections: the clean-up of knownPeers
PeersHealthCheck ==
    /\ nextTick = now
    /\ nextTick' = now + PeerStep
    /\ ticks' = ticks + 1
    /\ IF lastSeen # <<>> /\ now - lastSeen[1] > ONE_DAY
       THEN /\ lastSeen' = <<>>
            /\ multiaddrs' = <<>>
            /\ knownAddrs' = FALSE
            /\ reconnectAttempts' = <<>>
            /\ peerEvent' = RecordChange("evict", <<>>)
       ELSE UNCHANGED <<lastSeen, multiaddrs, knownAddrs, reconnectAttempts, peerEvent>>
    /\ UNCHANGED <<now, connected, aroundPeers>>

PeersTimePasses ==
    /\ nextTick > now
    /\ ticks < MaxTicks
    /\ now' = nextTick
    /\ UNCHANGED <<nextTick, ticks, connected, lastSeen, multiaddrs, knownAddrs,
                   reconnectAttempts, peerEvent, aroundPeers>>

NextPeers ==
    \/ \E addrs \in MultiaddrLists : \E ok \in BOOLEAN : PeerDiscovery(addrs, ok)
    \/ \E addr \in Multiaddrs : PeerConnected(addr)
    \/ PeersHealthCheck
    \/ PeersTimePasses

SpecPeers == InitPeers /\ [][NextPeers]_vars

(***************************************************************************)
(* Properties.                                                             *)
(***************************************************************************)
\* C1: for a session id the auction engine emits quote-selected-<id> at most
\* once, whatever bids are added and whenever.
C1_AtMostOneSelection == \A n \in Nodes : selectedCount[n] <= 1

\* the signature of msg is the one fromWalletAddr's key makes over the
\* canonical form of msg without its signature
Authentic(msg) ==
    /\ "signature" \in DOMAIN msg
    /\ msg.signature = [signer |-> msg.fromWalletAddr,
                        bytes |-> Canonicalize(WithoutSignature(msg))]

\* C2: a role handler runs for an envelope only if its signature verifies
\* over the canonical envelope without the signature, with fromWalletAddr as
\* key; an envelope altered after signing reaches no handler and no bid is
\* recorded for it.
C2_SignatureGate ==
    /\ \A h \in handled : Authentic(h.msg) /\ ~h.altered
    /\ \A n \in Nodes : \A i \in 1..Len(quoteQueue[n].quotes) :
          \E h \in handled :
             /\ h.node = n
             /\ h.msg = quoteQueue[n].quotes[i].msg
             /\ ~h.altered

\* both providers offered, an envelope was altered, and the customer's
\* auction holds one bid with no quote-response left in flight: the altered
\* bid was dropped
C2_AlteredDropped ==
    /\ tampers > 0
    /\ \A p \in Providers : stepCount[p]["QUOTE_OFFERED"] = 1
    /\ \A d \in net : d.msg.role # "quote-response"
    /\ selectedCount[Customer] = 0
    /\ Len(quoteQueue[Customer].quotes) = 1

\* the inference-response deliveries in flight
InferenceResponses(deliveries) ==
    {d \in deliveries : d.msg.role = "inference-response"}

\* C3: when verifyQuoteFunded reports the contract unfunded, or a funded
\* amount below the total price in base units, the handler of contract-signed
\* runs no inference and sends no inference-response.
C3_UnderfundedAborts ==
    [][(/\ ledgerCalls'.verifyQuoteFunded # ledgerCalls.verifyQuoteFunded
        /\ lastVerify' # <<>>
        /\ \/ ~lastVerify'[1].funded
           \/ lastVerify'[1].usdcAmount < lastVerify'[1].totalPrice)
       => /\ inferenceRuns' = inferenceRuns
          /\ InferenceResponses(net') \subseteq InferenceResponses(net)
          /\ lastSend' = lastSend]_vars

\* verifyQuoteFunded reported the contract funded with one base unit less
\* than the price, and no inference ran
C3_UnderfundedSeen ==
    /\ lastVerify # <<>>
    /\ lastVerify[1].funded
    /\ lastVerify[1].totalPrice \notin InexactPrices
    /\ lastVerify[1].usdcAmount = lastVerify[1].totalPrice - 1
    /\ \A n \in Nodes : inferenceRuns[n] = 0

\* C4: a second message with the id and role of one already handled by the
\* node is dropped without effect, so that for a session id each ledger
\* method is called at most once, inference runs at most once and the
\* session-complete event fires at most once.
C4_DuplicateDropped ==
    /\ \A k \in DOMAIN ledgerCalls : ledgerCalls[k] <= 1
    /\ \A n \in Nodes : inferenceRuns[n] <= 1
    /\ infEvents <= 1

\* the steps of path taken by node n are a prefix of path, each taken once
PrefixOf(n, path) ==
    \A i \in 1..Len(path) :
       /\ stepCount[n][path[i]] <= 1
       /\ i > 1 => stepCount[n][path[i]] <= stepCount[n][path[i - 1]]

\* C5: the steps the customer takes for a session id are a prefix of the
\* customer path and those a provider takes a prefix of the provider path:
\* no step without the one before it, none skipped, none repeated.
C5_PathPrefix ==
    /\ PrefixOf(Customer, CustomerPath)
    /\ \A p \in Providers : PrefixOf(p, ProviderPath)

\* C6: a bid that arrives after quote-selected-<id> was emitted is
\* discarded: it is not stored and arms no timer.
C6_LateBidDiscarded ==
    \A n \in Nodes : selectedCount[n] >= 1 => quoteQueue[n] = NoQueue

\* C7: quote-accepted is addressed and sent to the provider of the selected
\* bid only; no other bidder handles a later message of the session; the
\* completion returned to the HTTP caller is the selected provider's.
C7_OnlySelectedProvider ==
    /\ Cardinality(acceptedTo) <= 1
    /\ \A a \in acceptedTo : a.to = a.target /\ a.target \in Providers
    /\ \A h \in handled :
          /\ h.role \in {"quote-accepted", "contract-signed"}
                => \E a \in acceptedTo : h.node = a.target
          /\ h.role \in {"quote-response", "contract-created", "inference-response"}
                => h.node = Customer
    /\ httpResp = "200" => \E a \in acceptedTo : httpBody = a.target

\* both bids were in the one auction the customer ran, and the caller got
\* the completion
C7_CompletedBySelected ==
    /\ httpResp = "200"
    /\ selectedCount[Customer] = 1
    /\ quoteQueue[Customer] = NoQueue
    /\ \A p \in Providers :
          \E h \in handled : /\ h.node = Customer
                             /\ h.role = "quote-response"
                             /\ h.msg.fromWalletAddr = WalletOf[p]

\* C8: every accepted POST gets an HTTP response: when nothing more can
\* happen for the session the request is not left pending.
C8_PostAnswered == ~(ENABLED Next) => httpResp # "pending"

C10_NoFallbackFails ==
    /\ \A i \in DOMAIN lastSend :
          (lastSend[i].direct >= 1 /\ ~lastSend[i].success /\ ~fallbackToGossipsub)
             => lastSend[i].threw /\ lastSend[i].published = <<>>
    /\ (directEnabled /\ ~fallbackToGossipsub)
          => \A d \in net : d.chan = "pubsub" => d.msg.role \notin DirectMessageTypes

\* the direct send of quote-accepted failed with the fallback disabled
C10_DeliveryError ==
    /\ lastSend # <<>>
    /\ lastSend[1].msg.role = "quote-accepted"
    /\ lastSend[1].direct = 1
    /\ ~lastSend[1].success
    /\ ~fallbackToGossipsub
    /\ lastSend[1].threw

\* C11: the router calls sendDirect for a message exactly when its role is one
\* of quote-accepted, contract-created, contract-signed, inference-response,
\* direct messaging is enabled (which is when the direct handler exists) and a
\* target peer is given; a message of a broadcast-only role never travels on
\* the direct protocol, target or not.
C11_DirectIffPreferred ==
    /\ lastSend # <<>> =>
          LET c == lastSend[1]
          IN  /\ c.direct >= 1 <=>
                    /\ c.msg.role \in {"quote-accepted", "contract-created",
                                        "contract-signed", "inference-response"}
                    /\ directEnabled
                    /\ c.target # NoPeer
              /\ c.direct >= 1 <=> lastDirect # <<>>
    /\ \A d \in net :
          d.chan = "direct" =>
              d.msg.role \notin {"list-models", "list-models-response",
                                 "quote-request", "quote-response"}

\* a quote-response sent with a target peer while direct messaging is enabled
\* went out on the topic, and a contract-signed went direct
C11_BroadcastWithTarget ==
    /\ lastSend # <<>>
    /\ directEnabled
    /\ lastSend[1].target # NoPeer
    /\ lastSend[1].msg.role = "quote-response"
    /\ lastSend[1].direct = 0
    /\ lastSend[1].published # <<>>
    /\ \A d \in net : d.chan = "pubsub"

\* C12: a message for which sendDirect returned true is not also published on
\* the topic: that send call puts the message on the direct channel only, and
\* a send call that makes no sendDirect call puts it on the topic only.
C12_DirectSuccessNotPublished ==
    lastSend # <<>> =>
        LET c == lastSend[1]
        IN  /\ c.success =>
                  /\ c.published = <<>>
                  /\ net = {DirectDelivery(c.node, c.target, c.msg)}
            /\ c.direct = 0 =>
                  /\ c.published = <<c.msg>>
                  /\ net = Publish(c.node, c.msg)

\* a contract-signed went to the target on the direct protocol and sendDirect
\* returned true
C12_DeliveredDirect ==
    /\ lastSend # <<>>
    /\ lastDirect # <<>>
    /\ lastSend[1].success
    /\ lastDirect[1].result
    /\ lastSend[1].msg.role = "contract-signed"
    /\ \E d \in net : d.chan = "direct" /\ d.dst = lastSend[1].target

\* C12 as stated: for each send call exactly one delivery channel carries the
\* message.
C12_ExactlyOneChannel ==
    lastSend # <<>> => Cardinality({d.chan : d \in net}) = 1

\* C13: sendDirect returns true only when one length-prefixed frame was
\* written and the stream was closed; whenever a step fails (peer id, dial,
\* timeout of the dial, write, close) it returns false, does not throw, and
\* has dialled and written at most once.
C13_SendDirectOutcome ==
    lastDirect # <<>> =>
        LET c == lastDirect[1]
        IN  /\ c.result => c.written = 1 /\ c.closed
            /\ c.fail # "none" => ~c.result
            /\ ~c.threw
            /\ c.dials <= 1
            /\ c.written <= 1

\* the frame was written, the close of the stream failed, and the call
\* returned false to the router
C13_CloseFailed ==
    /\ lastDirect # <<>>
    /\ lastDirect[1].fail = "close"
    /\ lastDirect[1].written = 1
    /\ ~lastDirect[1].closed
    /\ ~lastDirect[1].result
    /\ lastSend # <<>>
    /\ ~lastSend[1].success

\* C14: on the direct protocol reader a frame of exactly maxMessageSize bytes
\* that is read and decoded is handed to the ingress handler, and a frame of
\* maxMessageSize + 1 bytes or more is never handed to it: its stream is
\* aborted and nothing of it reaches the node.
C14_FrameSizeCap ==
    [][\/ lastStream' # lastStream
       \/ inbound' = inbound + 1 /\ lastInbound'[1].chan = "direct"
       =>
          LET h == lastStream'[1]
          IN  /\ h.len = MaxMessageSize /\ h.cause \notin {"read", "decode"} =>
                    /\ h.handed
                    /\ h.cause # "oversize"
                    /\ h.cause = "none" =>
                          \E d \in net' \ net :
                              d.chan = "direct" /\ d.dst = Receiver
              /\ h.len >= MaxMessageSize + 1 =>
                    /\ ~h.handed
                    /\ h.aborted
                    /\ net' = net
                    /\ handled' = handled
                    /\ lastSend' = lastSend]_vars

\* a frame of exactly maxMessageSize bytes was read and its envelope handed
\* to the ingress handler
C14_LimitAccepted ==
    /\ lastStream # <<>>
    /\ lastStream[1].len = MaxMessageSize
    /\ lastStream[1].handed
    /\ ~lastStream[1].aborted
    /\ lastInbound[1].chan = "direct"
    /\ \E d \in net : d.chan = "direct" /\ d.src = Sender /\ d.dst = Receiver

\* C15: an error raised while an inbound direct stream is read, size-checked,
\* decoded or handed to the ingress handler aborts that stream with the error
\* as cause; it does not leave the stream handler, it changes nothing of the
\* messages in flight, and the protocol handler goes on serving streams.
C15_StreamErrorContained ==
    [][lastStream' # lastStream /\ lastStream'[1].cause # "none" =>
          LET h == lastStream'[1]
          IN  /\ h.aborted
              /\ h.abortCause = h.cause
              /\ ~h.leaked
              /\ h.serving
              /\ net' = net
              /\ handled' = handled
              /\ lastSend' = lastSend]_vars

\* a stream was aborted, and a later stream brought a message that the
\* receiver handled
C15_ServedAfterError ==
    /\ lastStream # <<>>
    /\ lastStream[1].afterAbort
    /\ lastStream[1].cause = "none"
    /\ lastStream[1].handed
    /\ inbound = 1
    /\ handled # {}
    /\ lastInbound[1].chan = "direct"

\* C16: on the topic and on the direct protocol alike, an inbound message
\* whose `to` names another peer leaves the node without any effect: it does
\* not reach the processor; and a message without `to` that the processor
\* admits is handled.
C16_AddressingFilter ==
    [][\A d \in net \ net' :
          /\ "to" \in DOMAIN d.msg /\ d.msg.to # d.dst =>
                /\ handled' = handled
                /\ tampers' = tampers
                /\ lastSend' = lastSend
                /\ net' = net \ {d}
                /\ quoteQueue' = quoteQueue
                /\ ledgerCalls' = ledgerCalls
                /\ inferenceRuns' = inferenceRuns
          /\ ("to" \notin DOMAIN d.msg /\ ProcessAdmits(d.msg)
                /\ d.msg.role \in HandledRoles /\ tampers' = tampers) =>
                \E h \in handled' : h.node = d.dst /\ h.msg = d.msg]_vars

\* a signed message for another peer came in on the direct protocol and is
\* gone, nothing having been handled
C16_DroppedOnDirect ==
    /\ inbound = 1
    /\ lastInbound[1].chan = "direct"
    /\ lastInbound[1].addressed
    /\ lastInbound[1].verdict = "MessageNotAddressedHere"
    /\ net = {}
    /\ handled = {}
    /\ lastSend = <<>>

C18_BackoffSequence ==
    /\ Len(scheduled) <= 5
    /\ \A i \in 1..Len(scheduled) :
          scheduled[i] = <<5000, 10000, 20000, 40000, 80000>>[i]

\* C19: the count stored for a peer never exceeds MAX_RECONNECT_ATTEMPTS.
C19_AttemptCountCapped ==
    reconnectAttempts # <<>> =>
        reconnectAttempts[1].count <= MAX_RECONNECT_ATTEMPTS

\* C20: once five reconnect attempts for a peer have failed and while
\* now - lastAttempt <= 5 min, no step sets a reconnect timeout for the peer
\* and none starts a dial of the peer, a peer:disconnect included.
C20_QuietInCooldown ==
    [][(/\ failed >= 5
        /\ reconnectAttempts # <<>>
        /\ now - reconnectAttempts[1].lastAttempt <= 300000)
       => /\ \A t \in BagToSet(timers') : CopiesIn(t, timers') <= CopiesIn(t, timers)
          /\ attemptDials' <= attemptDials
          /\ tick' # <<>> => tick' = tick]_vars

\* C25: the cheapest policy returns a bid whose totalPrice is the least of
\* the list, and of the bids with that price the one that arrived first.
C25_CheapestFirstArrived ==
    (chosen # <<>> /\ chosen[1].policy = "cheapest") =>
        \E i \in 1..Len(bids) :
            /\ chosen[1].quote = bids[i]
            /\ \A j \in 1..Len(bids) :
                  bids[i].msg.payload.totalPrice <= bids[j].msg.payload.totalPrice
            /\ \A j \in 1..(i - 1) :
                  bids[j].msg.payload.totalPrice > bids[i].msg.payload.totalPrice

\* C25 (witness): of three bids the last two share the least price, and the
\* cheapest policy has returned the second.
C25_TieAtLeastPrice ==
    /\ chosen # <<>>
    /\ chosen[1].policy = "cheapest"
    /\ Len(bids) = 3
    /\ bids[1].msg.payload.totalPrice > bids[2].msg.payload.totalPrice
    /\ bids[2].msg.payload.totalPrice = bids[3].msg.payload.totalPrice
    /\ chosen[1].quote = bids[2]

\* C26: the highest-stake policy returns the bid of a bidder whose balance
\* of the asset is the greatest among the bidders of the list, and of the
\* bids with that balance the one that arrived first.
C26_HighestStakeFirstArrived ==
    (chosen # <<>> /\ chosen[1].policy = "highest-stake") =>
        \E i \in 1..Len(bids) :
            /\ chosen[1].quote = bids[i]
            /\ \A j \in 1..Len(bids) : stakes[i].balance >= stakes[j].balance
            /\ \A j \in 1..(i - 1) : stakes[j].balance < stakes[i].balance

\* C27: the first bid for an id creates the list and arms one timer; a bid
\* that arrives while the list of its id exists is appended to it and arms
\* no timer; at most one timer per id is armed at any time.
C27_OneTimerPerId ==
    [][\A id \in SessionIds :
        /\ armed'[id] <= 1
        /\ (Len(arrivals') = Len(arrivals) + 1 /\ arrivals'[Len(arrivals')].id = id) =>
              LET quoteEvent == arrivals'[Len(arrivals')].quoteEvent
              IN  IF GetQuotes(id) = <<>>
                  THEN /\ GetQuotes(id)' = <<<<quoteEvent>>>>
                       /\ armed'[id] = armed[id] + 1
                  ELSE /\ GetQuotes(id)' = <<Append(GetQuotes(id)[1], quoteEvent)>>
                       /\ armed'[id] = armed[id]]_vars

\* C28: a window that closes has a winner: quote-selected-<id> is emitted,
\* it carries a bid of the list collected for the id, and after the
\* emission the list of the id is deleted.
C28_WindowCloseSelects ==
    [][\A id \in SessionIds :
        closed'[id] = closed[id] + 1 =>
            /\ emitted'[id] = emitted[id] + 1
            /\ lastEmit'[1].id = id
            /\ \E i \in 1..Len(GetQuotes(id)[1]) :
                  lastEmit'[1].quote = GetQuotes(id)[1][i]
            /\ GetQuotes(id)' = <<>>]_vars

\* C29: while the selection for an id is awaited, no timer is armed for
\* the id and no other selection for it is awaited.
C29_SelectionsNeverOverlap ==
    \A id \in SessionIds :
        selecting[id] # <<>> => armed[id] = 0 /\ Len(selecting[id]) = 1

\* shutdown has run its cancel step
CancelStepDone == \E i \in 1..Len(steps) : steps[i] = "timers-cancelled"

\* C22: once shutdown has run its cancel step, no keep-alive round, no
\* health check and no scheduled attemptReconnect runs.
C22_TimersCancelled ==
    [][CancelStepDone =>
        /\ pings' = pings
        /\ ticks' = ticks
        /\ attemptDials' <= attemptDials
        /\ \A t \in BagToSet(timers) : CopiesIn(t, timers') >= CopiesIn(t, timers)]_vars

StepRank(step) ==
    CASE step = "http-close" -> 1
      [] step = "http-closed" -> 2
      [] step = "timers-cancelled" -> 3
      [] step = "unsubscribed" -> 4
      [] step = "node-stop" -> 5
      [] step = "node-stopped" -> 6

\* the steps of shutdown are taken in the order of the claim, each after
\* the step before it has ended
StepsInOrder ==
    /\ \A i, j \in 1..Len(steps) : i < j => StepRank(steps[i]) < StepRank(steps[j])
    /\ \A j \in 1..Len(steps) :
          (steps[j] = "timers-cancelled" /\ steps[1] = "http-close") =>
              \E i \in 1..(j - 1) : steps[i] = "http-closed"
    /\ \A j \in 1..Len(steps) :
          steps[j] = "node-stop" =>
              /\ \E i \in 1..(j - 1) : steps[i] = "timers-cancelled"
              /\ \E i \in 1..(j - 1) : steps[i] = "unsubscribed"

\* C24: shutdown stops accepting HTTP, then cancels the supervisor and
\* keep-alive timers, then unsubscribes, then stops the node, each step
\* after the one before it has ended.
C24_ShutdownOrder ==
    /\ StepsInOrder
    /\ CancelStepDone => ~healthCheckIntervalId /\ ~keepAliveTimer
    /\ (\E i \in 1..Len(steps) : steps[i] = "unsubscribed") => ~subscribed

\* the dials of the attemptReconnect call that went to stored multiaddrs
StoredDials == SelectSeq(dialed, LAMBDA d : d.target # PeerIdTarget)

\* every stored multiaddr was dialled by the call, and every one failed
AllStoredFailed ==
    /\ Len(StoredDials) = Len(multiaddrs)
    /\ \A i \in 1..Len(StoredDials) : ~StoredDials[i].ok

\* an attemptReconnect call that found the peer not connected is over
AttemptOver == dialing = <<>> /\ dialed # <<>>

C21_ZeroConnectionsBootstrap ==
    [][/\ (ticks' = ticks + 1 /\ Cardinality(bootConns) = 0) =>
             /\ bootRuns' # <<>>
             /\ bootRuns'[1] = [at |-> now, connectionCount |-> 0,
                                last |-> lastBootstrapAttempt]
             /\ bootstrapAddresses # <<>> =>
                   bootTick' = Append(bootTick, [now |-> now, index |-> 1,
                                                 successCount |-> 0, wake |-> 0])
       /\ (\E k \in 1..Len(bootTick') : bootTick'[k].successCount >= 1) =>
             Cardinality(bootConns') >= 1
       /\ (\E k \in 1..Len(bootTick) : /\ bootTick[k].successCount >= 1
                                        /\ bootTick' = Without(bootTick, k)) =>
             Cardinality(bootConns') >= 1]_vars

\* a health check that found no connection called reconnectToBootstrap 60 s
\* after the last attempt, within the retry interval, and the dial of the
\* second of two bootstrap addresses succeeded
C21_BootstrapWithinInterval ==
    /\ bootRuns # <<>>
    /\ bootRuns[1].connectionCount = 0
    /\ bootRuns[1].last > 0
    /\ bootRuns[1].at - bootRuns[1].last <= BOOTSTRAP_RETRY_INTERVAL
    /\ Len(bootstrapAddresses) = 2
    /\ bootConns = {bootstrapAddresses[2]}
    /\ bootTick # <<>>
    /\ bootTick[Len(bootTick)].now = bootRuns[1].at
    /\ bootTick[Len(bootTick)].successCount = 1

\* C31: while the peer is connected its entry of reconnectAttempts is
\* absent, from the connect to the next disconnect; a timeout of
\* scheduleReconnect that runs attemptReconnect while the peer is connected
\* starts no dial, sets no timeout and leaves no entry.
C31_ClearedWhileConnected ==
    [][/\ connected' => reconnectAttempts' = <<>>
       /\ (connected /\ \E due \in BagToSet(timers) :
                            CopiesIn(due, timers') < CopiesIn(due, timers)) =>
             /\ attemptDials' = attemptDials
             /\ \A t \in BagToSet(timers') : CopiesIn(t, timers') <= CopiesIn(t, timers)
             /\ reconnectAttempts' = <<>>]_vars

\* the reconnect attempts of the peer that are scheduled and not yet run,
\* and those that are running
PendingAttempts == BagCardinality(timers)

RunningAttempts == attemptDials

\* C39: at any time at most one reconnect attempt for the peer is scheduled
\* and not yet run, at most one is running, and none is scheduled while one
\* is running.
C39_OneAttemptPerPeer == PendingAttempts + RunningAttempts <= 1

\* C32: two reconnectToBootstrap calls made by health checks that observed
\* at least one connection, and fewer than MIN_CONNECTIONS, are more than
\* BOOTSTRAP_RETRY_INTERVAL apart.
C32_BootstrapThrottled ==
    (Len(bootRuns) = 2 /\ bootRuns[1].connectionCount > 0) =>
        bootRuns[1].at - bootRuns[2].at > BOOTSTRAP_RETRY_INTERVAL

\* C40: at most one health check callback is in progress at any time, so that
\* no two reconnectToBootstrap calls are under way together.
C40_OneTickAtATime == Len(bootTick) <= 1

\* C36: when createQuote, fundQuote, verifyQuoteFunded, completeQuote or the
\* inference fails in a handler, that step puts no reply on the wire, makes
\* no send, emits no inference-response event, answers no request, and
\* process returns false instead of throwing.
C36_FailedCallDropsSession ==
    [][(lastCall' # <<>> /\ ~lastCall'[1].ok)
         => /\ net' \subseteq net
            /\ lastSend' = lastSend
            /\ infEvents' = infEvents
            /\ httpResp' = httpResp
            /\ lastCall'[1].result = "false"]_vars

\* a completeQuote that failed on the customer's node, the request still open
C36_CompleteQuoteFailed ==
    /\ lastCall # <<>>
    /\ lastCall[1].method = "completeQuote"
    /\ ~lastCall[1].ok
    /\ httpResp = "pending"
    /\ infEvents = 0

C35_ChecksInOrderShortCircuit ==
    processed # <<>> =>
        LET r == processed[1]
            m == envelope[1]
            order == <<"address", "signature", "verifySignature", "role">>
            addressOk == "fromWalletAddr" \in DOMAIN m /\ IsValidAddress(m.fromWalletAddr)
            signed == "signature" \in DOMAIN m
            verified == addressOk /\ signed /\ VerifySignature(m)
            passes == <<addressOk, signed, verified, m.role \in HandledRoles>>
        IN  /\ Len(r.checks) <= 4
            /\ \A i \in 1..Len(r.checks) : r.checks[i] = order[i]
            /\ \A i \in 1..4 : ~passes[i] => Len(r.checks) <= i
            /\ \A i \in 1..4 : (~passes[i] /\ Len(r.checks) = i) =>
                                   (r.result = "false" /\ r.handler = "none")
            /\ r.handler # "none" =>
                  (Len(r.checks) = 4 /\ (\A i \in 1..4 : passes[i]) /\ r.handler = m.role)
            /\ r.result = "true" => r.handler # "none"

\* a message with a bad address and no signature was turned down at the
\* address check
C35_BadAddressUnsigned ==
    /\ processed # <<>>
    /\ "fromWalletAddr" \in DOMAIN envelope[1]
    /\ ~IsValidAddress(envelope[1].fromWalletAddr)
    /\ "signature" \notin DOMAIN envelope[1]
    /\ processed[1].checks = <<"address">>
    /\ processed[1].result = "false"

\* C37: no two requests of the facade are given the same quote-request id,
\* two requests with the same body received within the same ms included.
C37_IdsDistinct ==
    \A i, j \in 1..Len(posts) : i # j => posts[i].id # posts[j].id

\* C33: the health check evicts the record once more than 24 h have passed
\* since the last contact, and never evicts the record of a peer that is
\* still connected or was discovered or connected within the last 24 h.
C33_EvictedOnlyWithoutContact ==
    /\ (nextTick > now /\ lastSeen # <<>>) => now - lastSeen[1] <= ONE_DAY
    /\ (peerEvent # <<>> /\ peerEvent[1].kind = "evict") =>
          /\ peerEvent[1].at - peerEvent[1].lastSeen[1] > ONE_DAY
          /\ ~peerEvent[1].connected

\* C34: after a connect the stored multiaddrs are, as a set, those stored
\* before together with the address of the new connection, none of them
\* twice.
C34_ConnectMergesAddrs ==
    (peerEvent # <<>> /\ peerEvent[1].kind = "connect") =>
        /\ {multiaddrs[i] : i \in 1..Len(multiaddrs)}
              = {peerEvent[1].before[i] : i \in 1..Len(peerEvent[1].before)}
                  \cup {peerEvent[1].addrs[1]}
        /\ \A i, j \in 1..Len(multiaddrs) : i # j => multiaddrs[i] # multiaddrs[j]

====
